---- MODULE Spec2Model ----
(***************************************************************************)
(* Model of src/lib/githubAnalyzer.ts: the repository analysis pipeline    *)
(* (fork resolution, multi-branch file harvesting, commit-message          *)
(* classification, contributor/timeline aggregation, report assembly).     *)
(*                                                                         *)
(* Representation:                                                         *)
(*  - paths, names, e-mails, dates and URLs are ASCII and are kept as      *)
(*    strings; Len, SubSeq and \o play length, substring and +;            *)
(*  - a commit message is the sequence of its UTF-16 code units, because   *)
(*    the classifier looks at characters outside ASCII;                    *)
(*  - a confidence is kept in hundredths (0.45 is 45, 1.0 is 100);         *)
(*  - estimated hours are kept in tenths of an hour, times in seconds.     *)
(***************************************************************************)
EXTENDS Integers, Sequences, FiniteSets, TLC

VARIABLES
    \* analyzeCommitMessage applied to one message
    message, msgResult,
    \* analyzeCommitHistory applied to one fetched commit list
    githubCommits, histResult,
    \* estimateWorkHours applied to one commit list and one time window
    hourCommits, timeWindow, hoursResult,
    \* fetchGitHubContents called for one listing
    contentsCall, contentsRef, refsRequested, contentsResult,
    \* fetchGitHubCommits called once, request by request
    commitCount, failingPage, failingStats,
    fpc, pageNo, pagesRequested, pending, settledOrder, statsGot, commitsAcc, fetchedCommits,
    \* one run of analyzeGitHubRepository
    pc, repositoryUrl, includeCommitHistory, remote,
    owner, repo, originalRepositoryUrl, isForked,
    sortedBranches, walked, allFiles, seenFiles, totalBranches,
    hasLovableLabel, analyzeableFiles, fileIdx, fileAnalyses,
    commitAnalysis, report, error, log

msgVars  == <<message, msgResult>>
histVars == <<githubCommits, histResult>>
runVars  == <<pc, repositoryUrl, includeCommitHistory, remote,
              owner, repo, originalRepositoryUrl, isForked,
              sortedBranches, walked, allFiles, seenFiles, totalBranches,
              hasLovableLabel, analyzeableFiles, fileIdx, fileAnalyses,
              commitAnalysis, report, error, log>>
hoursVars == <<hourCommits, timeWindow, hoursResult>>
contentsVars == <<contentsCall, contentsRef, refsRequested, contentsResult>>
commitsVars == <<commitCount, failingPage, failingStats,
                 fpc, pageNo, pagesRequested, pending, settledOrder, statsGot, commitsAcc,
                 fetchedCommits>>
unitVars == <<hoursVars, contentsVars, commitsVars>>
vars     == <<msgVars, histVars, unitVars, runVars>>

(***************************************************************************)
(* Bounds of the model.                                                    *)
(***************************************************************************)
MaxMsgTokens == 3      \* a message is built from at most this many tokens
MaxCommits   == 3      \* length of a fetched commit list
MaxBranches  == 2      \* branches a repository lists, when only the harvest is run
MaxRunBranches == 1    \* branches a repository lists, when the whole analysis is run
MaxHourCommits == 3    \* length of a commit list given to estimateWorkHours
MaxTracked == 2        \* stats fetches of a page that settle one by one; the rest of
                       \* the page settles together, in one step

(***************************************************************************)
(* Small arithmetic and sequence helpers.                                  *)
(***************************************************************************)
MathMaxSum(a, b) == a + b
MathMax(a, b) == IF a >= b THEN a ELSE b
MathMin(a, b) == IF a <= b THEN a ELSE b

\* A const bound once: x is evaluated a single time and its value is handed to F.
Bind(x, F(_)) == CHOOSE r \in {F(v) : v \in {x}} : TRUE

RECURSIVE SumFrom(_, _)
SumFrom(v, i) == IF i > Len(v) THEN 0 ELSE v[i] + SumFrom(v, i + 1)
\* Array.prototype.reduce((sum, x) => sum + x, 0)
SeqSum(s) == Bind(s, LAMBDA v : SumFrom(v, 1))

RECURSIVE SelectUpTo(_, _, _)
\* the elements of v at the positions of keep that are at most n, in order
SelectUpTo(v, keep, n) ==
    IF n = 0 THEN <<>>
    ELSE Bind(SelectUpTo(v, keep, n - 1),
              LAMBDA rest : IF n \in keep THEN Append(rest, v[n]) ELSE rest)
\* Array.prototype.filter with the kept positions given as a set
SelectSeqBy(s, keep) == Bind(<<s, keep>>, LAMBDA a : SelectUpTo(a[1], a[2], Len(a[1])))

Range(s) == {s[i] : i \in 1..Len(s)}

RECURSIVE MapFrom(_, _, _)
\* F applied to the elements of v from the i-th on
MapFrom(F(_), v, i) == IF i > Len(v) THEN <<>> ELSE <<F(v[i])>> \o MapFrom(F, v, i + 1)
\* Array.prototype.map
MapSeq(F(_), s) == CHOOSE r \in {MapFrom(F, v, 1) : v \in {s}} : TRUE

RECURSIVE Iota(_)
\* <<1, ..., n>>
Iota(n) == IF n = 0 THEN <<>> ELSE Append(Iota(n - 1), n)

(***************************************************************************)
(* JavaScript strings.                                                     *)
(***************************************************************************)
\* String.prototype.includes
Includes(s, w) == \E i \in 1..(Len(s) - Len(w) + 1) : SubSeq(s, i, i + Len(w) - 1) = w
\* String.prototype.startsWith / a regular expression literal$ at the end
StartsWith(s, w) == Len(s) >= Len(w) /\ SubSeq(s, 1, Len(w)) = w
EndsWith(s, w) == Len(s) >= Len(w) /\ SubSeq(s, Len(s) - Len(w) + 1, Len(s)) = w
CharAt(s, i) == SubSeq(s, i, i)
\* positions of the character c in s
IndexesOf(s, c) == {i \in 1..Len(s) : CharAt(s, i) = c}
SetMin(S) == CHOOSE x \in S : \A y \in S : x <= y
SetMax(S) == CHOOSE x \in S : \A y \in S : x >= y

\* the printable ASCII characters: code units 32..95 and 97..126 in order
AsciiLow == " !\"#$%&'()*+,-./0123456789:;<=>?@ABCDEFGHIJKLMNOPQRSTUVWXYZ[\\]^_"
AsciiHigh == "abcdefghijklmnopqrstuvwxyz{|}~"
CodeOf(c) ==
    IF c = "\n" THEN 10
    ELSE IF \E k \in 1..Len(AsciiLow) : CharAt(AsciiLow, k) = c
         THEN 31 + (CHOOSE k \in 1..Len(AsciiLow) : CharAt(AsciiLow, k) = c)
         ELSE 96 + (CHOOSE k \in 1..Len(AsciiHigh) : CharAt(AsciiHigh, k) = c)
\* the UTF-16 code units of an ASCII string
U(s) == MapSeq(LAMBDA i : CodeOf(CharAt(s, i)), Iota(Len(s)))

(***************************************************************************)
(* Regular expressions over UTF-16 code units (commit messages).           *)
(***************************************************************************)
\* the i flag: only ASCII letters fold onto each other
Lower(c) == IF c \in 65..90 THEN c + 32 ELSE c
\* the literal w (code units) matches m at position i, ignoring case
MatchAt(m, i, w) ==
    /\ i >= 1
    /\ i + Len(w) - 1 <= Len(m)
    /\ \A k \in 1..Len(w) : Lower(m[i + k - 1]) = Lower(w[k])
\* \s
IsSpace(c) == c \in ({9, 10, 11, 12, 13, 32, 160, 5760, 8232, 8233, 8239, 8287, 12288, 65279}
                     \cup (8192..8202))
\* \w
IsWord(c) == c \in ((48..57) \cup (65..90) \cup (97..122) \cup {95})
\* . (without the s flag) matches all but the line terminators
IsDot(c) == c \notin {10, 13, 8232, 8233}
\* [.!?]
IsStop(c) == c \in {46, 33, 63}
\* \s+ starting at position i: the positions right after it
Gap(m, i) == {j \in (i + 1)..(Len(m) + 1) : \A k \in i..(j - 1) : IsSpace(m[k])}
\* .+ covering exactly the positions i..j
DotPlus(m, i, j) == i <= j /\ \A k \in i..j : IsDot(m[k])
\* a\s+(b1|b2|...) matched with a at position i
PhraseAt(m, i, a, Bs) ==
    /\ MatchAt(m, i, a)
    /\ \E j \in Gap(m, i + Len(a)) : \E b \in Bs : MatchAt(m, j, b)
\* a\s+(b1|b2|...) matched anywhere
Phrase(m, a, Bs) == \E i \in 1..Len(m) : PhraseAt(m, i, a, Bs)
\* \b(w1|w2|...)\b matched anywhere
WholeWord(m, Ws) ==
    \E i \in 1..Len(m) : \E w \in Ws :
        /\ MatchAt(m, i, w)
        /\ (i = 1 \/ ~IsWord(m[i - 1]))
        /\ (i + Len(w) > Len(m) \/ ~IsWord(m[i + Len(w)]))

\* the code points of m, as a regular expression with the u flag reads them
IsHighSurrogate(c) == c \in 55296..56319
IsLowSurrogate(c) == c \in 56320..57343
CodePoints(m) ==
    {IF IsHighSurrogate(m[i]) /\ i < Len(m) /\ IsLowSurrogate(m[i + 1])
        THEN 65536 + (m[i] - 55296) * 1024 + (m[i + 1] - 56320)
        ELSE m[i]
     : i \in {k \in 1..Len(m) : ~(IsLowSurrogate(m[k]) /\ k > 1 /\ IsHighSurrogate(m[k - 1]))}}

(***************************************************************************)
(* analyzeCommitMessage                                                    *)
(***************************************************************************)
\* a plausible slip: only the byte-order mark is looked for
invisibleCharsBomOnly(m) == \E i \in 1..Len(m) : m[i] = 65279
\* /[\u200B-\u200D\uFEFF\u2060\u180E\u2061-\u2064]/
invisibleChars(m) ==
    \E i \in 1..Len(m) : m[i] \in ((8203..8205) \cup {65279, 8288, 6158} \cup (8289..8292))

\* the emoji ranges, tested on code points (u flag)
emojiRegex(m) ==
    \E cp \in CodePoints(m) :
        \/ cp \in 128512..128591    \* 1F600-1F64F
        \/ cp \in 127744..128511    \* 1F300-1F5FF
        \/ cp \in 128640..128767    \* 1F680-1F6FF
        \/ cp \in 127456..127487    \* 1F1E0-1F1FF
        \/ cp \in 9728..9983        \* 2600-26FF
        \/ cp \in 9984..10175       \* 2700-27BF

CommitTypes == {U("feat"), U("fix"), U("docs"), U("style"), U("refactor"), U("test"),
                U("chore"), U("ci"), U("build"), U("perf")}
LeadVerbs == {U("add"), U("update"), U("implement"), U("create"), U("fix"), U("remove"),
              U("delete"), U("improve")}
FirstCommits == {U("initial commit"), U("first commit")}
WUpdate == U("update")
WMinor == U("minor")
WCode == U("code")
WImprove == U("improve")
WEnhance == U("enhance")
WUser == U("user")
WIssue == U("issue")
ReadmeDocs == {U("readme"), U("documentation")}
ResolveAddress == {U("resolve"), U("address")}
MinorObjects == {U("changes"), U("updates"), U("fixes")}
CodeObjects == {U("cleanup"), U("optimization"), U("refactoring")}
ImproveObjects == {U("performance"), U("functionality")}
WExperience == {U("experience")}
EnhanceObjects == {U("feature"), U("component"), U("ui")}
UpdateObjects == {U("dependencies"), U("packages")}
FormalVerbs == {U("implement"), U("establish"), U("utilize"), U("facilitate"), U("optimize")}
FormalConnectives == {U("furthermore"), U("additionally"), U("moreover"), U("consequently")}

\* :\s.+$ from position j on
ColonSubject(m, j) ==
    /\ j + 2 <= Len(m)
    /\ m[j] = 58
    /\ IsSpace(m[j + 1])
    /\ DotPlus(m, j + 2, Len(m))

\* the ten aiPatterns, in the order of the array
aiPattern(p, m) ==
    CASE p = 1 ->   \* ^(feat|...|perf)(\(.+\))?\:\s.+$
            \E t \in CommitTypes :
                /\ MatchAt(m, 1, t)
                /\ \/ ColonSubject(m, Len(t) + 1)
                   \/ /\ Len(t) + 1 <= Len(m)
                      /\ m[Len(t) + 1] = 40
                      /\ \E k \in (Len(t) + 3)..Len(m) :
                            /\ m[k] = 41
                            /\ DotPlus(m, Len(t) + 2, k - 1)
                            /\ ColonSubject(m, k + 1)
      [] p = 2 ->   \* ^(add|...|improve)\s
            \E v \in LeadVerbs :
                /\ MatchAt(m, 1, v)
                /\ Len(v) + 1 <= Len(m)
                /\ IsSpace(m[Len(v) + 1])
      [] p = 3 ->   \* ^(initial commit|first commit)$
            \E w \in FirstCommits : MatchAt(m, 1, w) /\ Len(m) = Len(w)
      [] p = 4 -> Phrase(m, WUpdate, ReadmeDocs)
      [] p = 5 ->   \* ^(resolve|address)\s+issue
            \E a \in ResolveAddress : PhraseAt(m, 1, a, {WIssue})
      [] p = 6 -> Phrase(m, WMinor, MinorObjects)
      [] p = 7 -> Phrase(m, WCode, CodeObjects)
      [] p = 8 ->   \* improve\s+(performance|functionality|user\s+experience)
            \E i \in 1..Len(m) :
                /\ MatchAt(m, i, WImprove)
                /\ \E j \in Gap(m, i + Len(WImprove)) :
                      \/ \E b \in ImproveObjects : MatchAt(m, j, b)
                      \/ PhraseAt(m, j, WUser, WExperience)
      [] p = 9 -> Phrase(m, WEnhance, EnhanceObjects)
      [] p = 10 -> Phrase(m, WUpdate, UpdateObjects)

\* pattern.source of each aiPattern
aiPatternSource ==
    << "^(feat|fix|docs|style|refactor|test|chore|ci|build|perf)(\\(.+\\))?\\:\\s.+$",
       "^(add|update|implement|create|fix|remove|delete|improve)\\s",
       "^(initial commit|first commit)$",
       "update\\s+(readme|documentation)",
       "^(resolve|address)\\s+issue",
       "minor\\s+(changes|updates|fixes)",
       "code\\s+(cleanup|optimization|refactoring)",
       "improve\\s+(performance|functionality|user\\s+experience)",
       "enhance\\s+(feature|component|ui)",
       "update\\s+(dependencies|packages)" >>
NumAiPatterns == Len(aiPatternSource)

\* the three perfectGrammarIndicators, in the order of the array
perfectGrammarIndicator(g, m) ==
    CASE g = 1 ->   \* ^\w[^.!?]*[.!?]$
            /\ Len(m) >= 2
            /\ IsWord(m[1])
            /\ IsStop(m[Len(m)])
            /\ \A k \in 2..(Len(m) - 1) : ~IsStop(m[k])
      [] g = 2 -> WholeWord(m, FormalVerbs)
      [] g = 3 -> WholeWord(m, FormalConnectives)
NumGrammarIndicators == 3

\* the reasons pushed by the loop over aiPatterns
patternReasons(m) ==
    LET hit == {p \in 1..NumAiPatterns : aiPattern(p, m)}
    IN SelectSeqBy(MapSeq(LAMBDA src : "Matches AI pattern: " \o src, aiPatternSource), hit)

\* a plausible slip: one reason for the grammar signal, however many indicators match
grammarReasonsOnce(m) ==
    IF \E g \in 1..NumGrammarIndicators : perfectGrammarIndicator(g, m)
    THEN <<"Perfect grammar/formal language">> ELSE <<>>
\* the reasons pushed by the loop over perfectGrammarIndicators
grammarReasons(m) ==
    LET hit == {g \in 1..NumGrammarIndicators : perfectGrammarIndicator(g, m)}
    IN MapSeq(LAMBDA g : "Perfect grammar/formal language", SelectSeqBy(Iota(NumGrammarIndicators), hit))

LongMessage == 100
analyzeCommitMessage(m) ==
    IF invisibleChars(m)
    THEN [isAI |-> TRUE, confidence |-> 100,
          reasons |-> <<"Contains invisible Unicode characters">>]
    ELSE
      Bind(<<emojiRegex(m), patternReasons(m), grammarReasons(m)>>,
           LAMBDA tested :
      LET emoji == tested[1]
          c1 == IF emoji THEN MathMax(0, 90) ELSE 0
          r1 == IF emoji THEN <<"Contains emojis">> ELSE <<>>
          pr == tested[2]
          patternMatches == Len(pr)
          c2 == IF patternMatches > 0
                THEN MathMax(c1, MathMin(80, 30 + patternMatches * 15)) ELSE c1
          r2 == r1 \o pr
          long == Len(m) > LongMessage
          c3 == IF long THEN MathMax(c2, 60) ELSE c2
          r3 == IF long THEN Append(r2, "Unusually long commit message") ELSE r2
          gr == tested[3]
          grammarScore == Len(gr)
          c4 == IF grammarScore > 0 THEN MathMax(c3, 50 + grammarScore * 10) ELSE c3
          r4 == r3 \o gr
      IN [isAI |-> c4 > 50, confidence |-> c4, reasons |-> r4])

(***************************************************************************)
(* The commit messages the classifier is tried on: every concatenation of  *)
(* at most MaxMsgTokens tokens.                                            *)
(***************************************************************************)
ZeroWidthSpace == <<8203>>             \* U+200B
PartyPopper == <<55356, 57225>>        \* U+1F389, a surrogate pair
Filler50 == [i \in 1..50 |-> 122]      \* fifty times z
MsgTokens == {U("feat"), U("(ui)"), U(": "), U("update "), U("readme"), U("implement "),
              U("x"), U("."), ZeroWidthSpace, PartyPopper, Filler50}

RECURSIVE TokenStrings(_)
TokenStrings(n) ==
    IF n = 0 THEN {<<>>}
    ELSE LET shorter == TokenStrings(n - 1)
         IN shorter \cup {s \o t : s \in shorter, t \in MsgTokens}
Messages == TokenStrings(MaxMsgTokens)

\* the value of a variable that holds no object yet (undefined)
Undefined == [undefined |-> TRUE]

NoResult == [isAI |-> FALSE, confidence |-> -1, reasons |-> <<>>]

(***************************************************************************)
(* Dates.                                                                  *)
(***************************************************************************)
Digits == "0123456789"
DigitOf(c) == (CHOOSE k \in 1..10 : CharAt(Digits, k) = c) - 1
RECURSIVE ParseUpTo(_, _)
\* the number written by the first n digits of s
ParseUpTo(s, n) == IF n = 0 THEN 0 ELSE 10 * ParseUpTo(s, n - 1) + DigitOf(CharAt(s, n))
ParseInt(s) == ParseUpTo(s, Len(s))

\* days from 1970-01-01 to the civil date y-m-d
DaysFromCivil(y, m, d) ==
    LET yy == IF m <= 2 THEN y - 1 ELSE y
        era == yy \div 400
        yoe == yy - era * 400
        mp == IF m > 2 THEN m - 3 ELSE m + 9
        doy == (153 * mp + 2) \div 5 + d - 1
        doe == yoe * 365 + yoe \div 4 - yoe \div 100 + doy
    IN era * 146097 + doe - 719468

\* new Date(iso).getTime(), in seconds, of YYYY-MM-DDTHH:MM:SSZ or YYYY-MM-DD (UTC)
DateTime(iso) ==
    LET days == DaysFromCivil(ParseInt(SubSeq(iso, 1, 4)), ParseInt(SubSeq(iso, 6, 7)),
                              ParseInt(SubSeq(iso, 9, 10)))
        secs == IF Len(iso) >= 19
                THEN ParseInt(SubSeq(iso, 12, 13)) * 3600 + ParseInt(SubSeq(iso, 15, 16)) * 60
                     + ParseInt(SubSeq(iso, 18, 19))
                ELSE 0
    IN days * 86400 + secs

\* date.split('T')[0]
SplitT(date) ==
    LET ts == IndexesOf(date, "T")
    IN IF ts = {} THEN date ELSE SubSeq(date, 1, SetMin(ts) - 1)

RECURSIVE StrLessFrom(_, _, _)
\* a < b, given that a and b agree before position i
StrLessFrom(a, b, i) ==
    IF i > Len(b) THEN FALSE
    ELSE IF i > Len(a) THEN TRUE
    ELSE IF CharAt(a, i) = CharAt(b, i) THEN StrLessFrom(a, b, i + 1)
    ELSE CodeOf(CharAt(a, i)) < CodeOf(CharAt(b, i))
\* a < b on strings (code unit order), as the default Array.prototype.sort compares
StrLess(a, b) == StrLessFrom(a, b, 1)

\* a plausible slip: a sort that is not stable, equal keys come out reversed
SortPermTiesReversed(keys) ==
    LET n == Len(keys)
        rank(i) == Cardinality({j \in 1..n : keys[j] < keys[i] \/ (keys[j] = keys[i] /\ j > i)}) + 1
    IN MapSeq(LAMBDA r : CHOOSE i \in 1..n : rank(i) = r, Iota(n))
\* Array.prototype.sort with a numeric comparator is stable: the positions of keys in
\* ascending order of key, equal keys in their original order
SortPerm(keys) ==
    LET n == Len(keys)
        rank(i) == Cardinality({j \in 1..n : keys[j] < keys[i] \/ (keys[j] = keys[i] /\ j < i)}) + 1
    IN MapSeq(LAMBDA r : CHOOSE i \in 1..n : rank(i) = r, Iota(n))
SortByKey(s, keys) ==
    Bind(<<s, keys>>, LAMBDA a : MapSeq(LAMBDA i : a[1][i], SortPerm(a[2])))

(***************************************************************************)
(* estimateWorkHours: seconds inside, tenths of an hour returned.          *)
(***************************************************************************)
TimeWindow == 4             \* the default of the timeWindow parameter, hours
BaseSeconds == 1800         \* 0.5 h
MaxComplexitySeconds == 7200    \* 2 h

RECURSIVE WorkSecondsGapAlways(_, _, _)
\* a plausible slip: the gap is added whatever its length
WorkSecondsGapAlways(sorted, n, window) ==
    IF n = 0 THEN 0
    ELSE LET commit == sorted[n]
             session ==
                IF n = 1 THEN BaseSeconds
                ELSE DateTime(commit.author.date) - DateTime(sorted[n - 1].author.date)
             commitComplexity == MathMin(commit.stats.total * 360, MaxComplexitySeconds)
         IN WorkSecondsGapAlways(sorted, n - 1, window) + session + commitComplexity

RECURSIVE WorkSeconds(_, _, _)
\* totalHours after the first n commits of the sorted list
WorkSeconds(sorted, n, window) ==
    IF n = 0 THEN 0
    ELSE LET commit == sorted[n]
             session ==
                IF n = 1 THEN BaseSeconds
                ELSE LET timeDiff == DateTime(commit.author.date)
                                     - DateTime(sorted[n - 1].author.date)
                     IN IF timeDiff <= window * 3600 THEN timeDiff ELSE BaseSeconds
             commitComplexity == MathMin(commit.stats.total * 360, MaxComplexitySeconds)
         IN WorkSeconds(sorted, n - 1, window) + session + commitComplexity

\* totalHours at the end of the loop of a non-empty list
TotalSeconds(cs, window) ==
    Bind(SortByKey(cs, MapSeq(LAMBDA c : DateTime(c.author.date), cs)),
         LAMBDA sortedCommits : WorkSeconds(sortedCommits, Len(sortedCommits), window))

\* Math.round(totalHours * 10): totalHours is a sum of binary floating-point
\* numbers, so a total that is exactly half-way between two tenths reaches
\* Math.round just below or just above the half and goes to either neighbour;
\* every other total is rounded to its nearest tenth
RoundTenths(totalSeconds) ==
    IF totalSeconds % 360 = 180
    THEN {totalSeconds \div 360, totalSeconds \div 360 + 1}
    ELSE {(totalSeconds + 180) \div 360}

\* the values estimateWorkHours can return, in tenths of an hour
estimateWorkHoursOutcomes(cs, window) ==
    IF Len(cs) = 0 THEN {0} ELSE RoundTenths(TotalSeconds(cs, window))

\* estimateWorkHours where the total is a whole number of tenths (commit times
\* six minutes apart or more than the window apart), as in every commit list
\* analyzeCommitHistory is applied to here
estimateWorkHours(cs, window) ==
    Bind(cs, LAMBDA commits :
        IF Len(commits) = 0 THEN 0
        ELSE (TotalSeconds(commits, window) + 180) \div 360)

(***************************************************************************)
(* analyzeCommitHistory, after the commits are fetched.                    *)
(***************************************************************************)
ZeroStats == [additions |-> 0, deletions |-> 0, total |-> 0]

\* lines 683-697: one CommitAnalysis per GitHubCommit
ClassifyCommit(gc) ==
    Bind(analyzeCommitMessage(gc.commit.message),
         LAMBDA analysis :
            [sha |-> gc.sha, message |-> gc.commit.message,
             author |-> gc.commit.author, committer |-> gc.commit.committer,
             stats |-> gc.stats,
             isAI |-> analysis.isAI, confidence |-> analysis.confidence,
             reasons |-> analysis.reasons, url |-> gc.html_url])

\* the key of contributorMap
ContributorKey(c) == c.author.name \o "-" \o c.author.email

\* the key of timelineMap
TimelineKeyCommitter(c) == SplitT(c.committer.date)
TimelineKey(c) == SplitT(c.author.date)

\* position of key in a Map kept as the sequence of its entries (0 if absent)
MapIndex(map, key) ==
    IF \E i \in 1..Len(map) : map[i].key = key
    THEN CHOOSE i \in 1..Len(map) : map[i].key = key ELSE 0

\* a plausible slip: the commit that creates the entry is not counted
ContributorStepSkipFirst(map, commit) ==
    LET key == ContributorKey(commit)
        at == MapIndex(map, key)
        seed == [name |-> commit.author.name, email |-> commit.author.email,
                 totalCommits |-> 0, totalAdditions |-> 0, totalDeletions |-> 0,
                 estimatedHours |-> 0, aiCommitPercentage |-> <<0, 1>>,
                 firstCommit |-> commit.author.date, lastCommit |-> commit.author.date,
                 commitDays |-> <<>>]
    IN IF at = 0 THEN Append(map, [key |-> key, stats |-> seed])
       ELSE [map EXCEPT ![at].stats.totalCommits = @ + 1]
\* lines 702-736: one commit folded into contributorMap
ContributorStep(map, commit) ==
    LET key == ContributorKey(commit)
        seed == [name |-> commit.author.name, email |-> commit.author.email,
                 totalCommits |-> 0, totalAdditions |-> 0, totalDeletions |-> 0,
                 estimatedHours |-> 0, aiCommitPercentage |-> <<0, 1>>,
                 firstCommit |-> commit.author.date, lastCommit |-> commit.author.date,
                 commitDays |-> <<>>]
        map1 == IF MapIndex(map, key) = 0 THEN Append(map, [key |-> key, stats |-> seed])
                ELSE map
        at == MapIndex(map1, key)
        stats == map1[at].stats
        commitDate == SplitT(commit.author.date)
        t == DateTime(commit.author.date)
    IN [map1 EXCEPT ![at].stats =
            [stats EXCEPT
                !.totalCommits = @ + 1,
                !.totalAdditions = @ + commit.stats.additions,
                !.totalDeletions = @ + commit.stats.deletions,
                !.commitDays = IF commitDate \in Range(@) THEN @ ELSE Append(@, commitDate),
                !.firstCommit = IF t < DateTime(@) THEN commit.author.date ELSE @,
                !.lastCommit = IF t > DateTime(@) THEN commit.author.date ELSE @]]

RECURSIVE ContributorFold(_, _)
ContributorFold(cs, n) ==
    IF n = 0 THEN <<>>
    ELSE Bind(ContributorFold(cs, n - 1), LAMBDA map : ContributorStep(map, cs[n]))

\* lines 739-746: hours and AI percentage of each contributor
ContributorFinalize(map, cs) ==
    MapSeq(LAMBDA entry :
        LET mine == {i \in 1..Len(cs) : ContributorKey(cs[i]) = entry.key}
            contributorCommits == SelectSeqBy(cs, mine)
            aiCommits == Cardinality({i \in mine : cs[i].isAI})
        IN [entry EXCEPT
                !.stats.estimatedHours = estimateWorkHours(contributorCommits, TimeWindow),
                !.stats.aiCommitPercentage =
                    IF entry.stats.totalCommits > 0
                    THEN <<aiCommits * 100, entry.stats.totalCommits>> ELSE <<0, 1>>],
        map)

\* lines 751-778: one commit folded into timelineMap
TimelineStep(map, commit) ==
    LET date == TimelineKey(commit)
        seed == [date |-> date, commits |-> 0, additions |-> 0, deletions |-> 0,
                 aiCommits |-> 0, estimatedHours |-> 0, contributors |-> <<>>]
        map1 == IF MapIndex(map, date) = 0 THEN Append(map, [key |-> date, stats |-> seed])
                ELSE map
        at == MapIndex(map1, date)
    IN [map1 EXCEPT ![at].stats =
            [@ EXCEPT
                !.commits = @ + 1,
                !.additions = @ + commit.stats.additions,
                !.deletions = @ + commit.stats.deletions,
                !.aiCommits = IF commit.isAI THEN @ + 1 ELSE @,
                !.contributors = IF commit.author.name \in Range(@) THEN @
                                 ELSE Append(@, commit.author.name)]]

RECURSIVE TimelineFold(_, _)
TimelineFold(cs, n) ==
    IF n = 0 THEN <<>>
    ELSE Bind(TimelineFold(cs, n - 1), LAMBDA map : TimelineStep(map, cs[n]))

\* lines 781-784: hours of each day
TimelineFinalize(map, cs) ==
    MapSeq(LAMBDA entry :
        LET dayCommits == SelectSeqBy(cs, {i \in 1..Len(cs) : SplitT(cs[i].author.date) = entry.key})
        IN [entry EXCEPT !.stats.estimatedHours = estimateWorkHours(dayCommits, TimeWindow)],
        map)

\* commits.map(c => c.author.date).sort(): the smallest and the largest string
LeastDate(cs) ==
    CHOOSE d \in {cs[i].author.date : i \in 1..Len(cs)} :
        \A i \in 1..Len(cs) : ~StrLess(cs[i].author.date, d)
GreatestDate(cs) ==
    CHOOSE d \in {cs[i].author.date : i \in 1..Len(cs)} :
        \A i \in 1..Len(cs) : ~StrLess(d, cs[i].author.date)

analyzeCommitHistory(gcs) ==
    IF Len(gcs) = 0
    THEN [totalCommits |-> 0, commits |-> <<>>, contributors |-> <<>>, timeline |-> <<>>,
          totalEstimatedHours |-> 0, aiCommitPercentage |-> <<0, 1>>,
          projectStartDate |-> "", projectEndDate |-> ""]
    ELSE
      Bind(MapSeq(ClassifyCommit, gcs), LAMBDA cs :
      LET contributorMap == ContributorFinalize(ContributorFold(cs, Len(cs)), cs)
          timelineMap == TimelineFinalize(TimelineFold(cs, Len(cs)), cs)
          contributorValues == MapSeq(LAMBDA entry : entry.stats, contributorMap)
          timelineValues == MapSeq(LAMBDA entry : entry.stats, timelineMap)
          timeline == SortByKey(timelineValues,
                              MapSeq(LAMBDA t : DateTime(t.date), timelineValues))
          aiCommits == Cardinality({i \in 1..Len(cs) : cs[i].isAI})
      IN Bind(SortByKey(contributorValues,
                        MapSeq(LAMBDA c : 0 - c.totalCommits, contributorValues)),
              LAMBDA contributors :
         [totalCommits |-> Len(cs),
          commits |-> SortByKey(cs, MapSeq(LAMBDA c : 0 - DateTime(c.author.date), cs)),
          contributors |-> contributors,
          timeline |-> timeline,
          totalEstimatedHours |-> SeqSum(MapSeq(LAMBDA c : c.estimatedHours, contributors)),
          aiCommitPercentage |-> <<aiCommits * 100, Len(cs)>>,
          projectStartDate |-> LeastDate(cs),
          projectEndDate |-> GreatestDate(cs)]))

(***************************************************************************)
(* The commits a fetched list is drawn from.                               *)
(***************************************************************************)
Authors == { [name |-> "ann", email |-> "lee-x@y.z"],
             [name |-> "ann-lee", email |-> "x@y.z"],
             [name |-> "ann", email |-> "ann@y.z"] }
AuthorDates == {"2024-01-01T10:00:00Z", "2024-01-01T23:30:00Z", "2024-01-02T09:00:00Z"}

\* a commit authored late in the evening was committed (rebased) after midnight
CommitterOf(a, d) ==
    IF d = "2024-01-01T23:30:00Z"
    THEN [name |-> "GitHub", email |-> "noreply@github.com", date |-> "2024-01-02T00:05:00Z"]
    ELSE [name |-> a.name, email |-> a.email, date |-> d]
MessageOf(d) == IF d = "2024-01-01T10:00:00Z" THEN U("x")
                ELSE IF d = "2024-01-01T23:30:00Z" THEN U("update readme")
                ELSE U("feat: x")
StatsOf(d) == IF d = "2024-01-01T10:00:00Z" THEN [additions |-> 1, deletions |-> 0, total |-> 1]
              ELSE IF d = "2024-01-01T23:30:00Z" THEN [additions |-> 30, deletions |-> 5, total |-> 35]
              ELSE ZeroStats
ListedCommits ==
    { [commit |-> [message |-> MessageOf(d),
                   author |-> [name |-> a.name, email |-> a.email, date |-> d],
                   committer |-> CommitterOf(a, d)],
       stats |-> StatsOf(d)] : a \in Authors, d \in AuthorDates }

\* the i-th commit of a list, with its sha and page URL
WithSha(c, i) ==
    [sha |-> "sha" \o ToString(i), commit |-> c.commit, stats |-> c.stats,
     html_url |-> "https://github.com/commit/sha" \o ToString(i)]

RECURSIVE CommitLists(_)
CommitLists(n) ==
    IF n = 0 THEN {<<>>}
    ELSE LET shorter == CommitLists(n - 1)
         IN shorter \cup {Append(s, WithSha(c, Len(s) + 1)) : s \in shorter, c \in ListedCommits}

(***************************************************************************)
(* Path filters.                                                           *)
(***************************************************************************)
UpperLetters == "ABCDEFGHIJKLMNOPQRSTUVWXYZ"
LowerLetters == "abcdefghijklmnopqrstuvwxyz"
LowerChar(c) ==
    IF \E k \in 1..26 : CharAt(UpperLetters, k) = c
    THEN CharAt(LowerLetters, CHOOSE k \in 1..26 : CharAt(UpperLetters, k) = c)
    ELSE c
RECURSIVE LowerFrom(_, _)
\* the lower-case form of s from its i-th character on
LowerFrom(s, i) ==
    IF i > Len(s) THEN "" ELSE LowerChar(CharAt(s, i)) \o LowerFrom(s, i + 1)
\* String.prototype.toLowerCase, on ASCII
ToLowerCase(s) == LowerFrom(s, 1)

\* filePath.toLowerCase().match(/\.[^.]*$/)?.[0], "" when there is no match
ExtensionOf(filePath) ==
    Bind(ToLowerCase(filePath),
         LAMBDA lower :
            LET dots == IndexesOf(lower, ".")
            IN IF dots = {} THEN "" ELSE SubSeq(lower, SetMax(dots), Len(lower)))

TextExtensions ==
    {".js", ".jsx", ".ts", ".tsx", ".py", ".java", ".cpp", ".cc", ".cxx", ".c++",
     ".cs", ".go", ".rs", ".php", ".rb", ".swift", ".kt", ".scala", ".vue", ".svelte",
     ".html", ".css", ".scss", ".sass", ".md", ".mdx", ".txt", ".json", ".yaml", ".yml",
     ".xml", ".sh", ".bash", ".zsh", ".fish", ".ps1", ".bat", ".cmd", ".sql", ".r",
     ".dart", ".lua", ".perl", ".pl", ".clj", ".cljs", ".elm", ".ex", ".exs", ".fs",
     ".fsx", ".fsi", ".ml", ".mli", ".hs", ".lhs", ".jl", ".nim", ".cr", ".d", ".pas",
     ".pp", ".dpr", ".dfm", ".inc", ".asm", ".s", ".S", ".dockerfile", ".cmake",
     ".mk", ".makefile", ".gradle", ".sbt", ".pom", ".csproj", ".fsproj", ".vbproj",
     ".vcxproj", ".pbxproj", ".xcconfig", ".plist", ".ini", ".cfg", ".conf", ".config",
     ".toml", ".lock", ".env", ".gitignore", ".gitattributes", ".editorconfig"}

ScriptExtensions == {"js", "ts", "jsx", "tsx"}
\* the excludePatterns that match a substring anywhere in the path
ExcludeAnywhere ==
    {"/components/ui/", "/ui/", ".shadcn/",
     "node_modules/", "dist/", "build/", ".next/", ".nuxt/", "coverage/",
     ".generated.", ".gen.",
     "tailwind.config.", "vite.config.", "webpack.config.", "next.config.", "nuxt.config.",
     "rollup.config.", "babel.config.", "jest.config.", "vitest.config.", "postcss.config.",
     "eslint.config.", "prettier.config.",
     "__tests__/", ".test/",
     "/.", ".git/", ".vscode/", ".idea/"}
\* the excludePatterns anchored at the end of the path
ExcludeAtEnd ==
    {".d.ts", "types.ts", "index.d.ts",
     "package.json", "package-lock.json", "yarn.lock", "pnpm-lock.yaml", "bun.lockb"}
    \cup {"/main." \o e : e \in ScriptExtensions} \cup {"/index." \o e : e \in ScriptExtensions}
    \cup {"App." \o e : e \in ScriptExtensions}
    \cup {".test." \o e : e \in ScriptExtensions} \cup {".spec." \o e : e \in ScriptExtensions}

shouldAnalyzeFile(filePath) ==
    \E ext \in {ExtensionOf(filePath)} :
       /\ ~Includes(filePath, "node_modules/")
       /\ ext # ""
       /\ ext \in TextExtensions
       /\ \A w \in ExcludeAnywhere : ~Includes(filePath, w)
       /\ \A w \in ExcludeAtEnd : ~EndsWith(filePath, w)
       /\ ~(/\ Includes(filePath, "src/")
            /\ \E w \in {"/main." \o e : e \in ScriptExtensions}
                        \cup {"/index." \o e : e \in ScriptExtensions}
                        \cup {"App." \o e : e \in ScriptExtensions} : EndsWith(filePath, w))

SkipPatterns ==
    {"node_modules", "dist", "build", ".next", ".nuxt", "coverage", ".nyc_output", "public",
     "static", "assets", "components/ui", ".generated", ".gen", ".git", ".svn", ".hg",
     ".vscode", ".idea", ".vs", ".husky", ".github", ".gitlab", "tmp", "temp", ".cache", ".temp"}
shouldSkipDirectory(dirPath, dirName) ==
    \/ dirName \in SkipPatterns
    \/ Includes(dirPath, "/node_modules/")
    \/ Includes(dirPath, "/components/ui/")
    \/ Includes(dirPath, "/.")
    \/ Includes(dirPath, "/dist/")
    \/ Includes(dirPath, "/build/")

\* getLanguageFromPath, for the extensions the model's files have
LanguageMap ==
    [e \in {".js", ".jsx", ".ts", ".tsx", ".py", ".json", ".md", ".html"} |->
        CASE e = ".js" -> "javascript" [] e = ".jsx" -> "jsx" [] e = ".ts" -> "typescript"
          [] e = ".tsx" -> "tsx" [] e = ".py" -> "python" [] e = ".json" -> "json"
          [] e = ".md" -> "markdown" [] e = ".html" -> "html"]
getLanguageFromPath(filePath) ==
    Bind(ExtensionOf(filePath),
         LAMBDA ext : IF ext \in DOMAIN LanguageMap THEN LanguageMap[ext] ELSE "text")

(***************************************************************************)
(* The remote repository: what the GitHub API answers.                     *)
(***************************************************************************)
FileItem(path, name, size) == [type |-> "file", name |-> name, path |-> path, size |-> size]
DirItem(path, name) == [type |-> "dir", name |-> name, path |-> path, size |-> 0]
Listed(items) == [status |-> "ok", items |-> items]
Status(kind) == [status |-> kind, items |-> <<>>]

\* the directory listings of the trees a branch can hold
TreeListing(tree, path) ==
    CASE tree = "app" ->
            CASE path = "" -> Listed(<< FileItem("README.md", "README.md", 120),
                                        FileItem("Makefile", "Makefile", 300),
                                        FileItem("package.json", "package.json", 40),
                                        DirItem("src", "src"),
                                        DirItem("node_modules", "node_modules") >>)
              [] path = "src" -> Listed(<< FileItem("src/util.ts", "util.ts", 800),
                                           FileItem("src/App.tsx", "App.tsx", 50) >>)
              [] path = "node_modules" -> Listed(<< FileItem("node_modules/x.js", "x.js", 10) >>)
              [] OTHER -> Status("404")
      [] tree = "edited" ->
            CASE path = "" -> Listed(<< FileItem("README.md", "README.md", 120),
                                        FileItem("Makefile", "Makefile", 310),
                                        DirItem("src", "src") >>)
              [] path = "src" -> Status("neterr")
              [] OTHER -> Status("404")
      [] tree = "assets" ->
            CASE path = "" -> Listed(<< FileItem("logo.png", "logo.png", 5000),
                                        FileItem("empty.py", "empty.py", 0),
                                        DirItem("docs", "docs") >>)
              [] path = "docs" -> Listed(<< FileItem("docs/big.md", "big.md", 2000000) >>)
              [] OTHER -> Status("404")
      [] tree = "deep" ->
            CASE path = "" -> Listed(<< DirItem("a", "a") >>)
              [] path = "a" -> Listed(<< DirItem("a/b", "b") >>)
              [] path = "a/b" -> Listed(<< DirItem("a/b/c", "c") >>)
              [] path = "a/b/c" -> Listed(<< FileItem("a/b/c/f.py", "f.py", 10),
                                             DirItem("a/b/c/d", "d") >>)
              [] path = "a/b/c/d" -> Listed(<< FileItem("a/b/c/d/g.py", "g.py", 20) >>)
              [] OTHER -> Status("404")
      [] tree = "down" -> Status("500")
      [] OTHER -> Status("404")
TreeIds == {"app", "edited", "assets", "deep", "down"}
BranchNames == {"main", "master", "dev"}

\* the tree of a branch of the remote r; a branch the repository does not have has none
TreeOf(r, branch) ==
    IF \E i \in 1..Len(r.branches) : r.branches[i] = branch
    THEN r.trees[CHOOSE i \in 1..Len(r.branches) : r.branches[i] = branch]
    ELSE "absent"

\* GET /repos/{owner}/{repo}/contents/{path}?ref={branch}
ContentsResponse(r, ownerName, repoName, path, branch) ==
    LET l == TreeListing(TreeOf(r, branch), path)
    IN [status |-> l.status,
        items |-> MapSeq(LAMBDA it :
                    [type |-> it.type, name |-> it.name, path |-> it.path, size |-> it.size,
                     download_url |->
                        IF it.type = "file"
                        THEN "https://raw.githubusercontent.com/" \o ownerName \o "/" \o repoName
                             \o "/" \o branch \o "/" \o it.path
                        ELSE "null"],
                    l.items)]

(***************************************************************************)
(* fetchGitHubContents, getAllFiles                                        *)
(***************************************************************************)
Thrown == [ok |-> FALSE, files |-> <<>>, warned |-> TRUE]

RECURSIVE fetchGitHubContents(_, _, _, _, _)
fetchGitHubContents(r, ownerName, repoName, path, branch) ==
    LET response == ContentsResponse(r, ownerName, repoName, path, branch)
    IN IF response.status = "neterr" THEN Thrown
       ELSE IF response.status # "ok"
            THEN IF branch = "main"
                 THEN fetchGitHubContents(r, ownerName, repoName, path, "master")
                 ELSE Thrown
       ELSE [ok |-> TRUE, warned |-> FALSE,
             files |-> MapSeq(LAMBDA file :
                          [type |-> file.type, name |-> file.name, path |-> file.path,
                           size |-> file.size, download_url |-> file.download_url,
                           branch |-> branch],
                          response.items)]

MaxDepth == 4
RECURSIVE getAllFiles(_, _, _, _, _, _)
RECURSIVE CollectItems(_, _, _, _, _, _)
\* the loop over contents: allFiles after the first n items
CollectItems(r, ownerName, repoName, contents, n, arg) ==
    IF n = 0 THEN [ok |-> TRUE, files |-> <<>>, warned |-> FALSE]
    ELSE Bind(CollectItems(r, ownerName, repoName, contents, n - 1, arg),
              LAMBDA before :
                LET item == contents[n]
                IN IF item.type = "file"
                   THEN [before EXCEPT !.files = Append(@, item)]
                   ELSE IF item.type = "dir" /\ ~shouldSkipDirectory(item.path, item.name)
                   THEN Bind(getAllFiles(r, ownerName, repoName, item.path,
                                         arg.maxDepth - 1, arg.branch),
                             LAMBDA sub :
                                [ok |-> TRUE,
                                 files |-> IF sub.ok THEN before.files \o sub.files
                                           ELSE before.files,
                                 warned |-> before.warned \/ sub.warned])
                   ELSE before)
getAllFiles(r, ownerName, repoName, path, maxDepth, branch) ==
    IF maxDepth <= 0 THEN [ok |-> TRUE, files |-> <<>>, warned |-> FALSE]
    ELSE Bind(fetchGitHubContents(r, ownerName, repoName, path, branch),
              LAMBDA contents :
                IF ~contents.ok THEN Thrown
                ELSE CollectItems(r, ownerName, repoName, contents.files,
                                  Len(contents.files),
                                  [maxDepth |-> maxDepth, branch |-> branch]))

(***************************************************************************)
(* getAllFilesFromAllBranches                                              *)
(***************************************************************************)
IsMainOrMaster(name) == name = "main" \/ name = "master"

\* The comparator answers -1 for (main, master) and for (master, main): the order of
\* these two is whatever the engine's sort makes of it.  Every other pair is ordered:
\* main and master first, the others by localeCompare (lower-case ASCII names).
SortedBranchOrders(names) ==
    LET n == Len(names)
        Before(a, b) ==
            IF IsMainOrMaster(a) /\ IsMainOrMaster(b) THEN TRUE
            ELSE IF IsMainOrMaster(a) THEN TRUE
            ELSE IF IsMainOrMaster(b) THEN FALSE
            ELSE StrLess(a, b)
    IN {s \in [1..n -> Range(names)] :
            /\ \A i, j \in 1..n : i # j => s[i] # s[j]
            /\ \A i, j \in 1..n : i < j => Before(s[i], s[j])}

\* a plausible slip: the size is left out of the key
fileKeyPathOnly(file) == file.path
fileKey(file) == file.path \o "-" \o ToString(file.size)

RECURSIVE Dedup(_, _, _)
\* the loop over branchFiles: allFiles and seenFiles after the first n files
Dedup(acc, branchFiles, n) ==
    IF n = 0 THEN acc
    ELSE Bind(Dedup(acc, branchFiles, n - 1),
              LAMBDA before :
                LET file == branchFiles[n]
                IN IF fileKey(file) \notin before.seenFiles
                   THEN [seenFiles |-> before.seenFiles \cup {fileKey(file)},
                         allFiles |-> Append(before.allFiles, file)]
                   ELSE before)

(***************************************************************************)
(* fetchGitHubCommits                                                      *)
(***************************************************************************)
PerPage == 100
MaxPages == 10

RECURSIVE FetchPages(_, _, _, _)
\* The while loop from `page` on.  listing: the commits of the repository, newest
\* first; failPage: the page whose listing request fails (0: none); statsFail: the
\* positions of the listing whose stats request fails.
FetchPages(listing, page, failPage, statsFail) ==
    IF page > MaxPages THEN [ok |-> TRUE, commits |-> <<>>]
    ELSE IF page = failPage THEN [ok |-> FALSE, commits |-> <<>>]
    ELSE LET from == (page - 1) * PerPage + 1
             to == MathMin(page * PerPage, Len(listing))
             data == SubSeq(listing, from, to)
             commitsWithStats ==
                MapSeq(LAMBDA i : [listing[i] EXCEPT
                                      !.stats = IF i \in statsFail THEN ZeroStats ELSE @],
                       SubSeq(Iota(Len(listing)), from, to))
         IN IF Len(data) = 0 THEN [ok |-> TRUE, commits |-> <<>>]
            ELSE IF Len(data) < PerPage THEN [ok |-> TRUE, commits |-> commitsWithStats]
            ELSE Bind(FetchPages(listing, page + 1, failPage, statsFail),
                      LAMBDA rest :
                        [ok |-> rest.ok,
                         commits |-> IF rest.ok THEN commitsWithStats \o rest.commits
                                     ELSE <<>>])

fetchGitHubCommits(listing, failPage, statsFail) == FetchPages(listing, 1, failPage, statsFail)

(***************************************************************************)
(* analyzeGitHubRepository: one run, step by step.                         *)
(***************************************************************************)
\* the first position at or after j holding a slash, Len(s) + 1 if none
NextSlash(s, j) ==
    LET slashes == {k \in IndexesOf(s, "/") : k >= j}
    IN IF slashes = {} THEN Len(s) + 1 ELSE SetMin(slashes)

\* s.match(/prefix([^\/]+)\/([^\/]+)/) for a literal prefix: the leftmost match
MatchOwnerRepo(s, prefix) ==
    LET starts == {i \in 1..(Len(s) + 1) :
                      /\ i + Len(prefix) - 1 <= Len(s)
                      /\ SubSeq(s, i, i + Len(prefix) - 1) = prefix
                      /\ LET o == i + Len(prefix)
                             slash == NextSlash(s, o)
                         IN /\ slash > o
                            /\ slash <= Len(s)
                            /\ NextSlash(s, slash + 1) > slash + 1}
    IN IF starts = {} THEN [matched |-> FALSE, owner |-> "", repo |-> ""]
       ELSE LET o == SetMin(starts) + Len(prefix)
                slash == NextSlash(s, o)
            IN [matched |-> TRUE,
                owner |-> SubSeq(s, o, slash - 1),
                repo |-> SubSeq(s, slash + 1, NextSlash(s, slash + 1) - 1)]

InvalidUrl == "Invalid GitHub repository URL. Please use format: https://github.com/owner/repo"
NoFiles == "No analyzeable code files found in this repository"
MaxFileSize == 1024 * 1024

\* what the external analyzeCode can return
Analyses ==
    { [totalLines |-> 10, aiLines |-> 0, humanLines |-> 10, overallConfidence |-> 80,
       aiPercentage |-> 0,
       lineAnalysis |-> << [isAI |-> FALSE, reasons |-> <<>>] >>],
      [totalLines |-> 20, aiLines |-> 10, humanLines |-> 10, overallConfidence |-> 60,
       aiPercentage |-> 50,
       lineAnalysis |-> << [isAI |-> TRUE, reasons |-> <<"Contains emojis">>] >>],
      [totalLines |-> 5, aiLines |-> 5, humanLines |-> 0, overallConfidence |-> 100,
       aiPercentage |-> 100,
       lineAnalysis |-> << [isAI |-> TRUE,
                            reasons |-> <<"Contains invisible Unicode characters">>] >>] }

\* some line of the analysis is flagged with a reason that includes the word
HasEvidence(analysis, word) ==
    \E l \in 1..Len(analysis.lineAnalysis) :
        /\ analysis.lineAnalysis[l].isAI
        /\ \E k \in 1..Len(analysis.lineAnalysis[l].reasons) :
              Includes(analysis.lineAnalysis[l].reasons[k], word)

\* the comparator of lines 915-938 orders by these three in turn
FileSortKey(fa) ==
    (IF HasEvidence(fa.analysis, "invisible Unicode") THEN 0 ELSE 1) * 1000
    + (IF HasEvidence(fa.analysis, "emojis") THEN 0 ELSE 1) * 200
    + (100 - fa.analysis.aiPercentage)

ParseUrl ==
    /\ pc = "start"
    /\ \E urlMatch \in {MatchOwnerRepo(repositoryUrl, "github.com/")} :
          IF ~urlMatch.matched
          THEN /\ pc' = "error"
               /\ error' = InvalidUrl
               /\ UNCHANGED <<owner, repo>>
          ELSE /\ pc' = "resolve"
               /\ owner' = urlMatch.owner
               /\ repo' = urlMatch.repo
               /\ UNCHANGED error
    /\ UNCHANGED <<msgVars, histVars, unitVars, repositoryUrl, includeCommitHistory, remote,
                   originalRepositoryUrl, isForked, sortedBranches, walked, allFiles,
                   seenFiles, totalBranches, hasLovableLabel, analyzeableFiles, fileIdx,
                   fileAnalyses, commitAnalysis, report, log>>

\* lines 826-843: fetchGitHubRepo and the switch to the parent of a fork
ResolveIdentity ==
    /\ pc = "resolve"
    /\ LET repoInfo == remote.repoInfo
       IN IF repoInfo.status # "ok"
          THEN /\ log' = log \cup {"repoInfo"}
               /\ UNCHANGED <<owner, repo, isForked, originalRepositoryUrl>>
          ELSE IF repoInfo.fork /\ repoInfo.parent # Undefined
          THEN \E parentMatch \in {MatchOwnerRepo(repoInfo.parent.full_name, "")} :
                  /\ isForked' = TRUE
                  /\ originalRepositoryUrl' = repoInfo.parent.html_url
                  /\ owner' = IF parentMatch.matched THEN parentMatch.owner ELSE owner
                  /\ repo' = IF parentMatch.matched THEN parentMatch.repo ELSE repo
                  /\ UNCHANGED log
          ELSE UNCHANGED <<owner, repo, isForked, originalRepositoryUrl, log>>
    /\ pc' = "branches"
    /\ UNCHANGED <<msgVars, histVars, unitVars, repositoryUrl, includeCommitHistory, remote,
                   sortedBranches, walked, allFiles, seenFiles, totalBranches,
                   hasLovableLabel, analyzeableFiles, fileIdx, fileAnalyses,
                   commitAnalysis, report, error>>

\* lines 417-426: fetchGitHubBranches (a failure gives []) and the sort
FetchBranches ==
    /\ pc = "branches"
    /\ \E listed \in BOOLEAN :
          LET branches == IF listed THEN remote.branches ELSE <<>>
          IN /\ log' = IF listed THEN log ELSE log \cup {"branches"}
             /\ sortedBranches' \in SortedBranchOrders(branches)
    /\ walked' = 0
    /\ allFiles' = <<>>
    /\ seenFiles' = {}
    /\ pc' = "walk"
    /\ UNCHANGED <<msgVars, histVars, unitVars, repositoryUrl, includeCommitHistory, remote,
                   owner, repo, originalRepositoryUrl, isForked, totalBranches,
                   hasLovableLabel, analyzeableFiles, fileIdx, fileAnalyses,
                   commitAnalysis, report, error>>

\* lines 428-444: one turn of the loop over sortedBranches
WalkBranch ==
    /\ pc = "walk"
    /\ walked < Len(sortedBranches)
    /\ \E branchFiles \in {getAllFiles(remote, owner, repo, "", MaxDepth,
                                        sortedBranches[walked + 1])} :
       \E after \in {Dedup([seenFiles |-> seenFiles, allFiles |-> allFiles],
                           branchFiles.files, Len(branchFiles.files))} :
          /\ allFiles' = IF branchFiles.ok THEN after.allFiles ELSE allFiles
          /\ seenFiles' = IF branchFiles.ok THEN after.seenFiles ELSE seenFiles
          /\ log' = IF branchFiles.warned THEN log \cup {"contents"} ELSE log
    /\ walked' = walked + 1
    /\ UNCHANGED <<msgVars, histVars, unitVars, pc, repositoryUrl, includeCommitHistory, remote,
                   owner, repo, originalRepositoryUrl, isForked, sortedBranches,
                   totalBranches, hasLovableLabel, analyzeableFiles, fileIdx,
                   fileAnalyses, commitAnalysis, report, error>>

\* line 446: getAllFilesFromAllBranches returns
HarvestDone ==
    /\ pc = "walk"
    /\ walked = Len(sortedBranches)
    /\ totalBranches' = Len(sortedBranches)
    /\ pc' = "lovable"
    /\ UNCHANGED <<msgVars, histVars, unitVars, repositoryUrl, includeCommitHistory, remote,
                   owner, repo, originalRepositoryUrl, isForked, sortedBranches, walked,
                   allFiles, seenFiles, hasLovableLabel, analyzeableFiles, fileIdx,
                   fileAnalyses, commitAnalysis, report, error, log>>

\* the files checkForLovableKeyword fetches, in its order
LovableScanList(files) ==
    LET special(fileName) ==
            LET hits == {i \in 1..Len(files) :
                            files[i].name = fileName /\ files[i].path = fileName}
            IN IF hits = {} \/ files[SetMin(hits)].download_url = "null" THEN <<>>
               ELSE <<files[SetMin(hits)]>>
        srcFiles == SelectSeqBy(files, {i \in 1..Len(files) :
                                   StartsWith(files[i].path, "src/")
                                   /\ files[i].download_url # "null"})
    IN special("index.html") \o special("package.json") \o srcFiles

\* lines 851: checkForLovableKeyword; each content fetch fails, or finds the word or not
CheckLovable ==
    /\ pc = "lovable"
    /\ \E scan \in {LovableScanList(allFiles)} :
          \E outcome \in [1..Len(scan) -> {"fail", "lovable", "plain"}] :
            LET found == {k \in 1..Len(scan) : outcome[k] = "lovable"}
                fetched == IF found = {} THEN Len(scan) ELSE SetMin(found)
            IN /\ hasLovableLabel' = (found # {})
               /\ log' = IF \E k \in 1..fetched : outcome[k] = "fail"
                         THEN log \cup {"lovable"} ELSE log
    /\ pc' = "filter"
    /\ UNCHANGED <<msgVars, histVars, unitVars, repositoryUrl, includeCommitHistory, remote,
                   owner, repo, originalRepositoryUrl, isForked, sortedBranches, walked,
                   allFiles, seenFiles, totalBranches, analyzeableFiles, fileIdx,
                   fileAnalyses, commitAnalysis, report, error>>

\* the predicate of the filter of lines 854-859
Analyzeable(file) ==
    /\ shouldAnalyzeFile(file.path)
    /\ file.size # 0
    /\ file.size < MaxFileSize
    /\ file.download_url # "null"

\* lines 854-863
FilterFiles ==
    /\ pc = "filter"
    /\ \E keep \in {{i \in 1..Len(allFiles) : Analyzeable(allFiles[i])}} :
       \E kept \in {SelectSeqBy(allFiles, keep)} :
          /\ analyzeableFiles' = kept
          /\ IF Len(kept) = 0
             THEN pc' = "error" /\ error' = NoFiles
             ELSE pc' = "analyze" /\ UNCHANGED error
    /\ fileIdx' = 1
    /\ fileAnalyses' = <<>>
    /\ UNCHANGED <<msgVars, histVars, unitVars, repositoryUrl, includeCommitHistory, remote,
                   owner, repo, originalRepositoryUrl, isForked, sortedBranches, walked,
                   allFiles, seenFiles, totalBranches, hasLovableLabel,
                   commitAnalysis, report, log>>

\* lines 873-903: one turn of the loop over analyzeableFiles
AnalyzeFile ==
    /\ pc = "analyze"
    /\ fileIdx <= Len(analyzeableFiles)
    /\ LET file == analyzeableFiles[fileIdx]
       IN \/ \* fetchFileContent or analyzeCode throws
             /\ log' = log \cup {"analyze"}
             /\ UNCHANGED fileAnalyses
          \/ \* the content is empty after trim
             UNCHANGED <<fileAnalyses, log>>
          \/ \E analysis \in Analyses :
                /\ fileAnalyses' = Append(fileAnalyses,
                        [path |-> file.path, language |-> getLanguageFromPath(file.path),
                         analysis |-> analysis, size |-> file.size])
                /\ UNCHANGED log
    /\ fileIdx' = fileIdx + 1
    /\ UNCHANGED <<msgVars, histVars, unitVars, pc, repositoryUrl, includeCommitHistory, remote,
                   owner, repo, originalRepositoryUrl, isForked, sortedBranches, walked,
                   allFiles, seenFiles, totalBranches, hasLovableLabel, analyzeableFiles,
                   commitAnalysis, report, error>>

\* lines 905-938: the loop is over; fileAnalyses.sort sorts in place
SortFiles ==
    /\ pc = "analyze"
    /\ fileIdx > Len(analyzeableFiles)
    /\ fileAnalyses' = SortByKey(fileAnalyses, MapSeq(FileSortKey, fileAnalyses))
    /\ pc' = "history"
    /\ UNCHANGED <<msgVars, histVars, unitVars, repositoryUrl, includeCommitHistory, remote,
                   owner, repo, originalRepositoryUrl, isForked, sortedBranches, walked,
                   allFiles, seenFiles, totalBranches, hasLovableLabel, analyzeableFiles,
                   fileIdx, commitAnalysis, report, error, log>>

\* the commits a run's repository can list
RunCommits == {c \in ListedCommits : c.commit.author.name = "ann-lee"
                                     /\ c.commit.author.date = "2024-01-01T23:30:00Z"}
RunListings == {<<>>} \cup {<<WithSha(c, 1)>> : c \in RunCommits}

\* a plausible slip: the failure of the commit listing is not caught
CommitHistoryUncaught ==
    /\ pc = "history"
    /\ includeCommitHistory
    /\ \E listing \in RunListings, failPage \in {0, 1}, statsFail \in SUBSET {1} :
          \E fetched \in {fetchGitHubCommits(listing, failPage, statsFail)} :
             IF fetched.ok
             THEN /\ commitAnalysis' = analyzeCommitHistory(fetched.commits)
                  /\ log' = IF statsFail \cap (1..Len(listing)) # {}
                            THEN log \cup {"stats"} ELSE log
                  /\ pc' = "assemble"
                  /\ UNCHANGED error
             ELSE /\ log' = log \cup {"commits"}
                  /\ pc' = "error"
                  /\ error' = "GitHub API error"
                  /\ UNCHANGED commitAnalysis
    /\ UNCHANGED <<msgVars, histVars, unitVars, repositoryUrl, includeCommitHistory, remote,
                   owner, repo, originalRepositoryUrl, isForked, sortedBranches, walked,
                   allFiles, seenFiles, totalBranches, hasLovableLabel, analyzeableFiles,
                   fileIdx, fileAnalyses, report>>
\* lines 942-949 with includeCommitHistory: analyzeCommitHistory inside try/catch
CommitHistory ==
    /\ pc = "history"
    /\ includeCommitHistory
    /\ \E listing \in RunListings, failPage \in {0, 1}, statsFail \in SUBSET {1} :
          \E fetched \in {fetchGitHubCommits(listing, failPage, statsFail)} :
             IF fetched.ok
             THEN /\ commitAnalysis' = analyzeCommitHistory(fetched.commits)
                  /\ log' = IF statsFail \cap (1..Len(listing)) # {}
                            THEN log \cup {"stats"} ELSE log
             ELSE /\ log' = log \cup {"commits"}
                  /\ UNCHANGED commitAnalysis
    /\ pc' = "assemble"
    /\ UNCHANGED <<msgVars, histVars, unitVars, repositoryUrl, includeCommitHistory, remote,
                   owner, repo, originalRepositoryUrl, isForked, sortedBranches, walked,
                   allFiles, seenFiles, totalBranches, hasLovableLabel, analyzeableFiles,
                   fileIdx, fileAnalyses, report, error>>

\* lines 942: includeCommitHistory is false
SkipCommitHistory ==
    /\ pc = "history"
    /\ ~includeCommitHistory
    /\ pc' = "assemble"
    /\ UNCHANGED <<msgVars, histVars, unitVars, repositoryUrl, includeCommitHistory, remote,
                   owner, repo, originalRepositoryUrl, isForked, sortedBranches, walked,
                   allFiles, seenFiles, totalBranches, hasLovableLabel, analyzeableFiles,
                   fileIdx, fileAnalyses, commitAnalysis, report, error, log>>

\* lines 905-912 and 951-962: the report
AssembleReport ==
    /\ pc = "assemble"
    /\ LET totalLines == SeqSum(MapSeq(LAMBDA fa : fa.analysis.totalLines, fileAnalyses))
           totalAiLines == SeqSum(MapSeq(LAMBDA fa : fa.analysis.aiLines, fileAnalyses))
           totalHumanLines == SeqSum(MapSeq(LAMBDA fa : fa.analysis.humanLines, fileAnalyses))
           totalConfidence == SeqSum(MapSeq(LAMBDA fa : fa.analysis.overallConfidence, fileAnalyses))
           analyzedCount == Len(fileAnalyses)
       IN report' =
            [repositoryUrl |-> IF isForked THEN originalRepositoryUrl ELSE repositoryUrl,
             originalRepositoryUrl |-> IF isForked THEN originalRepositoryUrl ELSE "undefined",
             isForked |-> isForked,
             totalFiles |-> Len(allFiles),
             analyzedFiles |-> Len(fileAnalyses),
             totalBranches |-> totalBranches,
             files |-> fileAnalyses,
             overallStats |->
                [totalLines |-> totalLines, aiLines |-> totalAiLines,
                 humanLines |-> totalHumanLines,
                 aiPercentage |-> IF totalLines > 0 THEN <<totalAiLines * 100, totalLines>>
                                  ELSE <<0, 1>>,
                 humanPercentage |-> IF totalLines > 0 THEN <<totalHumanLines * 100, totalLines>>
                                     ELSE <<0, 1>>,
                 overallConfidence |-> IF analyzedCount > 0 THEN <<totalConfidence, analyzedCount>>
                                       ELSE <<0, 1>>],
             hasLovableLabel |-> hasLovableLabel,
             commitAnalysis |-> commitAnalysis]
    /\ pc' = "done"
    /\ UNCHANGED <<msgVars, histVars, unitVars, repositoryUrl, includeCommitHistory, remote,
                   owner, repo, originalRepositoryUrl, isForked, sortedBranches, walked,
                   allFiles, seenFiles, totalBranches, hasLovableLabel, analyzeableFiles,
                   fileIdx, fileAnalyses, commitAnalysis, error, log>>

(***************************************************************************)
(* Parts of the state a specification does not use stay at these values.   *)
(***************************************************************************)
MsgIdle == message = <<>> /\ msgResult = NoResult
HistIdle == githubCommits = <<>> /\ histResult = Undefined
HoursIdle == hourCommits = <<>> /\ timeWindow = TimeWindow /\ hoursResult = Undefined
ContentsIdle ==
    /\ contentsCall = Undefined /\ contentsRef = "" /\ refsRequested = <<>>
    /\ contentsResult = Undefined
CommitsIdle ==
    /\ commitCount = 0 /\ failingPage = 0 /\ failingStats = {}
    /\ fpc = "idle" /\ pageNo = 1 /\ pagesRequested = <<>>
    /\ pending = {} /\ settledOrder = <<>> /\ statsGot = <<>> /\ commitsAcc = <<>>
    /\ fetchedCommits = Undefined
UnitIdle == HoursIdle /\ ContentsIdle /\ CommitsIdle
RunIdle ==
    /\ pc = "idle" /\ repositoryUrl = "" /\ includeCommitHistory = FALSE
    /\ remote = Undefined /\ owner = "" /\ repo = ""
    /\ originalRepositoryUrl = "undefined" /\ isForked = FALSE
    /\ sortedBranches = <<>> /\ walked = 0 /\ allFiles = <<>> /\ seenFiles = {}
    /\ totalBranches = 0 /\ hasLovableLabel = FALSE /\ analyzeableFiles = <<>>
    /\ fileIdx = 0 /\ fileAnalyses = <<>> /\ commitAnalysis = Undefined
    /\ report = Undefined /\ error = "none" /\ log = {}

(***************************************************************************)
(* SpecMsg: analyzeCommitMessage applied to each message of Messages.      *)
(***************************************************************************)
InitMsg == message \in Messages /\ msgResult = NoResult /\ HistIdle /\ UnitIdle /\ RunIdle

AnalyzeCommitMessage ==
    /\ pc = "idle"
    /\ msgResult = NoResult
    /\ msgResult' = analyzeCommitMessage(message)
    /\ UNCHANGED <<message, histVars, unitVars, runVars>>

NextMsg == AnalyzeCommitMessage
SpecMsg == InitMsg /\ [][NextMsg]_vars

(***************************************************************************)
(* SpecHistory: analyzeCommitHistory applied to each fetched commit list.  *)
(***************************************************************************)
InitHistory ==
    /\ githubCommits \in CommitLists(MaxCommits)
    /\ histResult = Undefined
    /\ MsgIdle /\ UnitIdle /\ RunIdle

AnalyzeCommitHistory ==
    /\ pc = "idle"
    /\ histResult = Undefined
    /\ histResult' = analyzeCommitHistory(githubCommits)
    /\ UNCHANGED <<githubCommits, msgVars, unitVars, runVars>>

NextHistory == AnalyzeCommitHistory
SpecHistory == InitHistory /\ [][NextHistory]_vars

(***************************************************************************)
(* SpecHours: estimateWorkHours applied to each commit list and window.    *)
(***************************************************************************)
HourDates == {"2024-01-01T10:00:00Z", "2024-01-01T10:03:00Z",
              "2024-01-01T14:00:00Z", "2024-01-01T14:03:00Z"}
HourTotals == {0, 7, 35}
HourCommits == { [author |-> [date |-> d], stats |-> [total |-> t]] :
                    d \in HourDates, t \in HourTotals }
TimeWindows == {1, TimeWindow}

RECURSIVE HourLists(_)
HourLists(n) ==
    IF n = 0 THEN {<<>>}
    ELSE LET shorter == HourLists(n - 1)
         IN shorter \cup {Append(q, c) : q \in shorter, c \in HourCommits}

InitHours ==
    /\ hourCommits \in HourLists(MaxHourCommits)
    /\ timeWindow \in TimeWindows
    /\ hoursResult = Undefined
    /\ ContentsIdle /\ CommitsIdle
    /\ MsgIdle /\ HistIdle /\ RunIdle

EstimateWorkHours ==
    /\ pc = "idle"
    /\ hoursResult = Undefined
    /\ hoursResult' \in {[hours |-> h] : h \in estimateWorkHoursOutcomes(hourCommits, timeWindow)}
    /\ UNCHANGED <<hourCommits, timeWindow, contentsVars, commitsVars, msgVars, histVars,
                   runVars>>

NextHours == EstimateWorkHours
SpecHours == InitHours /\ [][NextHours]_vars

(***************************************************************************)
(* The remote repositories a run can meet.                                 *)
(***************************************************************************)
RECURSIVE DistinctSeqs(_, _)
\* the sequences of at most n elements of S
DistinctSeqs(S, n) ==
    IF n = 0 THEN {<<>>}
    ELSE LET shorter == DistinctSeqs(S, n - 1)
         IN shorter \cup {Append(q, x) : q \in shorter, x \in S}

NoRepeats(q) == \A i, j \in 1..Len(q) : i # j => q[i] # q[j]

NotFork == [status |-> "ok", fork |-> FALSE, parent |-> Undefined]
ForkOfUpstream ==
    [status |-> "ok", fork |-> TRUE,
     parent |-> [full_name |-> "up/orig", html_url |-> "https://github.com/up/orig"]]
ForkWithoutParent == [status |-> "ok", fork |-> TRUE, parent |-> Undefined]
RepoInfoFailure == [status |-> "fail", fork |-> FALSE, parent |-> Undefined]
RepoInfos == {NotFork, ForkOfUpstream, ForkWithoutParent, RepoInfoFailure}

Remotes(names, trees, n, infos) ==
    {[branches |-> b, trees |-> t, repoInfo |-> m] :
        b \in {q \in DistinctSeqs(names, n) : NoRepeats(q)}, t \in UNION {[1..k -> trees] : k \in 0..n}, m \in infos}

Urls == {"https://github.com/me/fork", "https://github.com/me"}

RunStart ==
    /\ owner = "" /\ repo = ""
    /\ originalRepositoryUrl = "undefined" /\ isForked = FALSE
    /\ sortedBranches = <<>> /\ walked = 0 /\ allFiles = <<>> /\ seenFiles = {}
    /\ totalBranches = 0 /\ hasLovableLabel = FALSE /\ analyzeableFiles = <<>>
    /\ fileIdx = 0 /\ fileAnalyses = <<>> /\ commitAnalysis = Undefined
    /\ report = Undefined /\ error = "none" /\ log = {}

(***************************************************************************)
(* Spec: one run of analyzeGitHubRepository.                               *)
(***************************************************************************)
Init ==
    /\ pc = "start"
    /\ repositoryUrl \in Urls
    /\ includeCommitHistory \in BOOLEAN
    /\ remote \in {r \in Remotes({"main", "dev"}, {"app", "assets", "down"},
                                 MaxRunBranches, RepoInfos) :
                      Len(r.trees) = Len(r.branches)}
    /\ RunStart
    /\ MsgIdle /\ HistIdle /\ UnitIdle

Next ==
    \/ ParseUrl
    \/ ResolveIdentity
    \/ FetchBranches
    \/ WalkBranch
    \/ HarvestDone
    \/ CheckLovable
    \/ FilterFiles
    \/ AnalyzeFile
    \/ SortFiles
    \/ CommitHistory
    \/ SkipCommitHistory
    \/ AssembleReport

Spec == Init /\ [][Next]_vars

\* Every awaited operation settles, so the run always takes its next step.
SpecLive == Spec /\ WF_vars(Next)

(***************************************************************************)
(* SpecHarvest: getAllFilesFromAllBranches alone, on the repository me/fork.*)
(***************************************************************************)
InitHarvest ==
    /\ pc = "branches"
    /\ repositoryUrl = "https://github.com/me/fork"
    /\ includeCommitHistory = FALSE
    /\ remote \in {r \in Remotes(BranchNames, TreeIds, MaxBranches, {NotFork}) :
                      Len(r.trees) = Len(r.branches)}
    /\ owner = "me" /\ repo = "fork"
    /\ originalRepositoryUrl = "undefined" /\ isForked = FALSE
    /\ sortedBranches = <<>> /\ walked = 0 /\ allFiles = <<>> /\ seenFiles = {}
    /\ totalBranches = 0 /\ hasLovableLabel = FALSE /\ analyzeableFiles = <<>>
    /\ fileIdx = 0 /\ fileAnalyses = <<>> /\ commitAnalysis = Undefined
    /\ report = Undefined /\ error = "none" /\ log = {}
    /\ MsgIdle /\ HistIdle /\ UnitIdle

NextHarvest == FetchBranches \/ WalkBranch \/ HarvestDone
SpecHarvest == InitHarvest /\ [][NextHarvest]_vars

(***************************************************************************)
(* SpecContents: one call of fetchGitHubContents, request by request.      *)
(***************************************************************************)
ListedPaths == {"", "src"}

InitContents ==
    /\ contentsCall \in
          {[remote |-> r, path |-> p, branch |-> b] :
              r \in {x \in Remotes(BranchNames, TreeIds, MaxBranches, {NotFork}) :
                        Len(x.trees) = Len(x.branches)},
              p \in ListedPaths, b \in BranchNames}
    /\ contentsRef = contentsCall.branch
    /\ refsRequested = <<>>
    /\ contentsResult = Undefined
    /\ HoursIdle /\ CommitsIdle
    /\ MsgIdle /\ HistIdle /\ RunIdle

\* lines 272-290: one fetch and what the call does with its response
RequestContents ==
    /\ pc = "idle"
    /\ contentsCall # Undefined
    /\ contentsResult = Undefined
    /\ refsRequested' = Append(refsRequested, contentsRef)
    /\ \E response \in {ContentsResponse(contentsCall.remote, "me", "fork",
                                          contentsCall.path, contentsRef)} :
          IF response.status = "neterr"
          THEN contentsResult' = Thrown /\ UNCHANGED contentsRef
          ELSE IF response.status # "ok"
          THEN IF contentsRef = "main"
               THEN contentsRef' = "master" /\ UNCHANGED contentsResult
               ELSE contentsResult' = Thrown /\ UNCHANGED contentsRef
          ELSE /\ contentsResult' =
                    [ok |-> TRUE, warned |-> FALSE,
                     files |-> MapSeq(LAMBDA file :
                                  [type |-> file.type, name |-> file.name,
                                   path |-> file.path, size |-> file.size,
                                   download_url |-> file.download_url,
                                   branch |-> contentsRef],
                                  response.items)]
               /\ UNCHANGED contentsRef
    /\ UNCHANGED <<contentsCall, hoursVars, commitsVars, msgVars, histVars, runVars>>

NextContents == RequestContents
SpecContents == InitContents /\ [][NextContents]_vars

(***************************************************************************)
(* SpecCommits: one call of fetchGitHubCommits from analyzeCommitHistory,  *)
(* request by request.  The repository has commitCount commits; the        *)
(* listing request of page failPage fails (0: none); the stats requests of *)
(* the positions in statsFail fail.                                        *)
(***************************************************************************)
AuthorCycle == << [name |-> "ann-lee", email |-> "x@y.z"],
                  [name |-> "ann", email |-> "ann@y.z"],
                  [name |-> "ann", email |-> "lee-x@y.z"] >>
DateCycle == << "2024-01-01T10:00:00Z", "2024-01-01T23:30:00Z", "2024-01-02T09:00:00Z" >>
\* nine commits of ListedCommits, which the listing repeats
CommitCycle ==
    [k \in 1..9 |->
        LET a == AuthorCycle[((k - 1) % 3) + 1]
            d == DateCycle[((k - 1) \div 3) + 1]
        IN [commit |-> [message |-> MessageOf(d),
                        author |-> [name |-> a.name, email |-> a.email, date |-> d],
                        committer |-> CommitterOf(a, d)],
            stats |-> StatsOf(d)]]

\* the commit at position i of the listing (newest first), with the stats its own
\* stats request answers
RemoteCommit(i) == WithSha(CommitCycle[(i % 9) + 1], i)

CommitCounts == {0, 1, 2, 3, PerPage, PerPage + 1, PerPage + 3, MaxPages * PerPage + 3}
FailPages == {0, 1, 2}
StatsFailSets == {{}, {1}, {2, PerPage + 1}}

\* the positions of the listing that page p holds
PageFrom(p) == (p - 1) * PerPage + 1
PageTo(p) == MathMin(p * PerPage, commitCount)
\* the stats fetches of page p, as the units that settle: the first MaxTracked
\* positions one by one, the remaining positions together
PageUnits(p) ==
    {i \in PageFrom(p)..PageTo(p) : i <= PageFrom(p) + MaxTracked}
UnitMembers(u, p) ==
    IF u < PageFrom(p) + MaxTracked THEN {u} ELSE u..PageTo(p)

InitCommits ==
    /\ commitCount \in CommitCounts
    /\ failingPage \in FailPages
    /\ failingStats \in StatsFailSets
    /\ fpc = "page" /\ pageNo = 1 /\ pagesRequested = <<>>
    /\ pending = {} /\ settledOrder = <<>> /\ statsGot = <<>> /\ commitsAcc = <<>>
    /\ fetchedCommits = Undefined
    /\ HoursIdle /\ ContentsIdle
    /\ MsgIdle /\ HistIdle /\ RunIdle

\* lines 611-620 and 622-643: the listing request of one page; an empty page ends
\* the loop, a failed request throws, otherwise every stats request of the page
\* is issued
RequestPage ==
    /\ fpc = "page"
    /\ pageNo <= MaxPages
    /\ pagesRequested' = Append(pagesRequested, pageNo)
    /\ IF pageNo = failingPage
       THEN /\ fpc' = "thrown"
            /\ UNCHANGED <<pending, fetchedCommits>>
       ELSE IF PageTo(pageNo) < PageFrom(pageNo)
       THEN /\ fpc' = "done"
            /\ fetchedCommits' = [commits |-> commitsAcc]
            /\ UNCHANGED pending
       ELSE /\ fpc' = "stats"
            /\ pending' = PageUnits(pageNo)
            /\ UNCHANGED fetchedCommits
    /\ settledOrder' = IF fpc' = "stats" THEN <<>> ELSE settledOrder
    /\ UNCHANGED <<commitCount, failingPage, failingStats, pageNo, statsGot,
                   commitsAcc, hoursVars, contentsVars, msgVars, histVars, runVars>>

\* lines 624-641: one stats request settles, with the stats of its own sha or, if
\* it failed, with zero stats
SettleStats ==
    /\ fpc = "stats"
    /\ \E u \in pending :
          /\ pending' = pending \ {u}
          /\ settledOrder' = Append(settledOrder, u)
          /\ statsGot' = [i \in (DOMAIN statsGot) \cup UnitMembers(u, pageNo) |->
                             IF i \in DOMAIN statsGot THEN statsGot[i]
                             ELSE IF i \in failingStats THEN ZeroStats
                             ELSE RemoteCommit(i).stats]
    /\ UNCHANGED <<commitCount, failingPage, failingStats, fpc, pageNo, pagesRequested,
                   commitsAcc, fetchedCommits, hoursVars, contentsVars, msgVars, histVars, runVars>>

\* a plausible slip: the commits of a page are kept in the order their stats arrived
JoinPageInArrivalOrder ==
    /\ fpc = "stats"
    /\ pending = {}
    /\ \E arrived \in {SelectSeq(settledOrder,
                                  LAMBDA u : u < PageFrom(pageNo) + MaxTracked)} :
       \E positions \in {[k \in 1..(PageTo(pageNo) - PageFrom(pageNo) + 1) |->
                              IF k <= Len(arrived) THEN arrived[k]
                              ELSE PageFrom(pageNo) + k - 1]} :
       \E commitsWithStats \in
              {[k \in 1..Len(positions) |->
                    [RemoteCommit(positions[k]) EXCEPT !.stats = statsGot[positions[k]]]]} :
          /\ commitsAcc' = commitsAcc \o commitsWithStats
          /\ IF Len(commitsWithStats) < PerPage \/ pageNo + 1 > MaxPages
             THEN fpc' = "done" /\ fetchedCommits' = [commits |-> commitsAcc']
             ELSE fpc' = "page" /\ UNCHANGED fetchedCommits
          /\ pageNo' = IF Len(commitsWithStats) < PerPage THEN pageNo ELSE pageNo + 1
    /\ statsGot' = <<>>
    /\ UNCHANGED <<commitCount, failingPage, failingStats, pagesRequested, pending,
                   settledOrder, hoursVars, contentsVars, msgVars, histVars, runVars>>
\* a plausible slip: a page shorter than perPage does not end the loop
JoinPageNoBreak ==
    /\ fpc = "stats"
    /\ pending = {}
    /\ \E commitsWithStats \in
              {[k \in 1..(PageTo(pageNo) - PageFrom(pageNo) + 1) |->
                    [RemoteCommit(PageFrom(pageNo) + k - 1)
                        EXCEPT !.stats = statsGot[PageFrom(pageNo) + k - 1]]]} :
          /\ commitsAcc' = commitsAcc \o commitsWithStats
          /\ IF pageNo + 1 > MaxPages
             THEN fpc' = "done" /\ fetchedCommits' = [commits |-> commitsAcc']
             ELSE fpc' = "page" /\ UNCHANGED fetchedCommits
          /\ pageNo' = pageNo + 1
    /\ statsGot' = <<>>
    /\ UNCHANGED <<commitCount, failingPage, failingStats, pagesRequested, pending,
                   settledOrder, hoursVars, contentsVars, msgVars, histVars, runVars>>
\* lines 622, 645-647 and 611: Promise.all resolves with the commits of the page in
\* listing order; a short page ends the loop, and so does page > 10
JoinPage ==
    /\ fpc = "stats"
    /\ pending = {}
    /\ \E commitsWithStats \in
              {[k \in 1..(PageTo(pageNo) - PageFrom(pageNo) + 1) |->
                    [RemoteCommit(PageFrom(pageNo) + k - 1)
                        EXCEPT !.stats = statsGot[PageFrom(pageNo) + k - 1]]]} :
          /\ commitsAcc' = commitsAcc \o commitsWithStats
          /\ IF Len(commitsWithStats) < PerPage \/ pageNo + 1 > MaxPages
             THEN fpc' = "done" /\ fetchedCommits' = [commits |-> commitsAcc']
             ELSE fpc' = "page" /\ UNCHANGED fetchedCommits
          /\ pageNo' = IF Len(commitsWithStats) < PerPage THEN pageNo ELSE pageNo + 1
    /\ statsGot' = <<>>
    /\ UNCHANGED <<commitCount, failingPage, failingStats, pagesRequested, pending,
                   settledOrder, hoursVars, contentsVars, msgVars, histVars, runVars>>

\* lines 666-807: analyzeCommitHistory goes on with the list fetchGitHubCommits
\* returned (here for lists of at most MaxCommits commits)
AnalyzeFetched ==
    /\ fpc = "done"
    /\ histResult = Undefined
    /\ Len(fetchedCommits.commits) <= MaxCommits
    /\ histResult' = analyzeCommitHistory(fetchedCommits.commits)
    /\ UNCHANGED <<githubCommits, commitsVars, hoursVars, contentsVars, msgVars, runVars>>

NextCommits == RequestPage \/ SettleStats \/ JoinPage \/ AnalyzeFetched
SpecCommits == InitCommits /\ [][NextCommits]_vars
\* Every request settles, so the call always takes its next step.
SpecCommitsLive == SpecCommits /\ WF_vars(NextCommits)

(***************************************************************************)
(* Claims about analyzeGitHubRepository (specification Spec).              *)
(***************************************************************************)
Finished == pc \in {"done", "error"}
UrlMatches == MatchOwnerRepo(repositoryUrl, "github.com/").matched

\* C1: a failure of the branch listing is not fatal: the repository is taken to
\* have zero branches and the run still ends by returning a report, not an error.
C1_BranchListFailureNonFatal ==
    (Finished /\ UrlMatches /\ "branches" \in log)
        => (pc = "done" /\ report.totalBranches = 0)

\* C1, what the code does: after a failed branch listing nothing is harvested and
\* the run ends with the error "No analyzeable code files found".
C1_BranchListFailureState ==
    /\ pc = "error" /\ error = NoFiles
    /\ "branches" \in log /\ log \subseteq {"branches"}
    /\ sortedBranches = <<>> /\ allFiles = <<>>
    /\ remote.repoInfo = NotFork /\ Len(remote.branches) = 1 /\ remote.trees = <<"app">>

\* the path filter and the size cap, as the specification words the filter
PassesFilterAndCap(file) == shouldAnalyzeFile(file.path) /\ file.size < MaxFileSize

\* the stats of every commit of the section are zero
AllStatsZero(section) ==
    \A i \in 1..Len(section.commits) : section.commits[i].stats = ZeroStats

\* C2 as stated: a run ends with an error only if the URL is malformed or no
\* harvested file passes the path filter and the size cap, and a failure anywhere
\* in the commit-history phase (listing or stats) leaves the section out.
C2_AsStated ==
    /\ pc = "error" =>
          \/ ~UrlMatches
          \/ \A i \in 1..Len(allFiles) : ~PassesFilterAndCap(allFiles[i])
    /\ (pc = "done" /\ includeCommitHistory /\ log \cap {"commits", "stats"} # {})
          => report.commitAnalysis = Undefined

\* the outcome of a run, where it has ended
C2_RunOutcome ==
    /\ pc = "error" =>
          \/ error = InvalidUrl /\ ~UrlMatches
          \/ /\ error = NoFiles /\ UrlMatches
             /\ \A i \in 1..Len(allFiles) : ~Analyzeable(allFiles[i])
    /\ pc = "done" =>
          /\ UrlMatches
          /\ \E i \in 1..Len(allFiles) : Analyzeable(allFiles[i])
          /\ report # Undefined
          /\ (report.commitAnalysis = Undefined)
                <=> (~includeCommitHistory \/ "commits" \in log)
          /\ "stats" \in log =>
                (report.commitAnalysis # Undefined /\ AllStatsZero(report.commitAnalysis))
\* C2 amended: a run ends with an error only if the URL is malformed or no harvested
\* file passes the whole filter (path filter, non-zero size below the cap, a download
\* URL); every other run goes on to a report; the commit-history section is absent
\* exactly when the history was not asked for or the commit listing failed, and a
\* failed stats fetch leaves the section present, with zero stats.
C2_ErrorsAndCommitSection == []C2_RunOutcome /\ <>Finished

\* C2: a run whose only failure was a commit-stats fetch: the report has the section
C2_StatsFailureReported ==
    /\ pc = "done" /\ includeCommitHistory
    /\ "stats" \in log /\ "commits" \notin log
    /\ report.commitAnalysis # Undefined
    /\ report.commitAnalysis.totalCommits = 1

ParentOf(r) == r.repoInfo.parent
IsForkWithParent(r) ==
    r.repoInfo.status = "ok" /\ r.repoInfo.fork /\ r.repoInfo.parent # Undefined
ReportUrls == {report.repositoryUrl, report.originalRepositoryUrl}

\* C3: for a fork with a parent the run works on the parent, sets the fork flag, and
\* the report holds both the parent's URL and the URL the caller supplied.
C3_ReportRecordsBothUrls ==
    (pc = "done" /\ IsForkWithParent(remote)) =>
        /\ report.isForked
        /\ owner \o "/" \o repo = ParentOf(remote).full_name
        /\ ParentOf(remote).html_url \in ReportUrls
        /\ repositoryUrl \in ReportUrls

\* C3, what the code does: both URL fields of the report hold the parent's URL
C3_ForkReportState ==
    /\ pc = "done" /\ IsForkWithParent(remote) /\ report.isForked
    /\ repositoryUrl = "https://github.com/me/fork"
    /\ report.repositoryUrl = "https://github.com/up/orig"
    /\ report.originalRepositoryUrl = "https://github.com/up/orig"
    /\ owner = "up" /\ repo = "orig"

(***************************************************************************)
(* Claims about getAllFilesFromAllBranches (specification SpecHarvest).    *)
(***************************************************************************)
\* what the walk of the k-th branch of sortedBranches returns
WalkOf(k) == getAllFiles(remote, owner, repo, "", MaxDepth, sortedBranches[k])
PairOf(file) == <<file.path, file.size>>
HasPair(files, pair) == \E n \in 1..Len(files) : PairOf(files[n]) = pair
FirstWithPair(files, pair) ==
    files[SetMin({n \in 1..Len(files) : PairOf(files[n]) = pair})]
\* the branches walked so far whose walk succeeded
WalkedOk == {k \in 1..walked : WalkOf(k).ok}
SeenPairs == UNION {{PairOf(WalkOf(k).files[n]) : n \in 1..Len(WalkOf(k).files)} : k \in WalkedOk}
FirstCopy(pair) ==
    FirstWithPair(WalkOf(SetMin({k \in WalkedOk : HasPair(WalkOf(k).files, pair)})).files, pair)

\* C4: after any number of branches is walked, allFiles has no two entries with the
\* same (path, size); every (path, size) returned by a successful walk appears exactly
\* once, as the copy of the first branch in walk order that had it; hence the same
\* path with two sizes is kept twice.
C4_DedupByPathAndSize ==
    pc \in {"walk", "lovable"} =>
        /\ \A i, j \in 1..Len(allFiles) :
              i # j => PairOf(allFiles[i]) # PairOf(allFiles[j])
        /\ {PairOf(allFiles[i]) : i \in 1..Len(allFiles)} = SeenPairs
        /\ \A i \in 1..Len(allFiles) : allFiles[i] = FirstCopy(PairOf(allFiles[i]))

\* C4: two branches were walked; they share README.md unchanged and hold Makefile
\* in two sizes
C4_TwoBranchesWalked ==
    /\ pc = "lovable" /\ walked = 2 /\ WalkedOk = {1, 2}
    /\ HasPair(WalkOf(1).files, <<"README.md", 120>>)
    /\ HasPair(WalkOf(2).files, <<"README.md", 120>>)
    /\ HasPair(allFiles, <<"Makefile", 300>>)
    /\ HasPair(allFiles, <<"Makefile", 310>>)
    /\ Cardinality({i \in 1..Len(allFiles) : allFiles[i].path = "README.md"}) = 1

(***************************************************************************)
(* Claims about analyzeCommitMessage (specification SpecMsg).              *)
(***************************************************************************)
Analysed == msgResult # NoResult
\* the zero-width and invisible characters: ZWSP, ZWNJ, ZWJ, the word joiner and
\* the invisible operators, the Mongolian vowel separator, the BOM
InvisibleCodeUnits == {8203, 8204, 8205, 8288, 8289, 8290, 8291, 8292, 6158, 65279}
HasInvisible == \E i \in 1..Len(message) : message[i] \in InvisibleCodeUnits
EmojiCount == IF emojiRegex(message) THEN 1 ELSE 0
MatchingPatterns == {p \in 1..NumAiPatterns : aiPattern(p, message)}
LongCount == IF Len(message) > 100 THEN 1 ELSE 0
MatchingIndicators == {g \in 1..NumGrammarIndicators : perfectGrammarIndicator(g, message)}

\* C5: a message with an invisible character gets confidence 1.0, isAI true and
\* exactly one reason, whatever else it contains.
C5_InvisibleShortCircuit ==
    (Analysed /\ HasInvisible) =>
        /\ msgResult.confidence = 100
        /\ msgResult.isAI
        /\ Len(msgResult.reasons) = 1

\* C5: an analysed message with an invisible character, an emoji and a pattern match
C5_InvisibleAmongOthers ==
    /\ Analysed /\ HasInvisible
    /\ EmojiCount = 1 /\ MatchingPatterns # {}

\* the candidates of the signals that triggered, in hundredths
Candidates ==
    (IF EmojiCount = 1 THEN {90} ELSE {})
    \cup (IF MatchingPatterns # {}
          THEN {IF 30 + 15 * Cardinality(MatchingPatterns) < 80
                THEN 30 + 15 * Cardinality(MatchingPatterns) ELSE 80}
          ELSE {})
    \cup (IF LongCount = 1 THEN {60} ELSE {})
    \cup (IF MatchingIndicators # {} THEN {50 + 10 * Cardinality(MatchingIndicators)} ELSE {})

\* C6: without an invisible character the confidence is the maximum of the candidates
\* of the triggered signals, 0 when none triggered; it lies in [0, 1]; isAI is true
\* exactly when the confidence is above 0.5.
C6_ConfidenceIsMaximum ==
    (Analysed /\ ~HasInvisible) =>
        /\ msgResult.confidence = IF Candidates = {} THEN 0 ELSE SetMax(Candidates)
        /\ msgResult.confidence \in 0..100
        /\ msgResult.isAI <=> msgResult.confidence > 50
        /\ (Candidates = {45}) => ~msgResult.isAI

\* C6: an emoji and two pattern matches: the confidence is 0.9, not the sum
C6_EmojiAndPatterns ==
    /\ Analysed /\ ~HasInvisible
    /\ EmojiCount = 1 /\ Cardinality(MatchingPatterns) = 2
    /\ msgResult.confidence = 90 /\ msgResult.isAI

TriggeredSignals ==
    EmojiCount + (IF MatchingPatterns # {} THEN 1 ELSE 0) + LongCount
    + (IF MatchingIndicators # {} THEN 1 ELSE 0)

\* C7 as stated: reasons holds one string per triggered signal (emoji, pattern, length,
\* grammar), so its length is the number of triggered signals, at most 4, and 1 in
\* the invisible-character case.
C7_OneReasonPerSignal ==
    Analysed =>
        Len(msgResult.reasons) = IF HasInvisible THEN 1 ELSE TriggeredSignals

PatternsBelow(p) == Cardinality({q \in MatchingPatterns : q < p})

\* C7 amended: reasons holds, in this order, one string for an emoji, one string for
\* each matching pattern (in the order of the pattern list), one for a length over
\* 100 and one for each matching grammar indicator; it has one entry in the
\* invisible-character case.
C7_OneReasonPerMatch ==
    Analysed =>
        IF HasInvisible
        THEN msgResult.reasons = <<"Contains invisible Unicode characters">>
        ELSE LET reasons == msgResult.reasons
                 m == Cardinality(MatchingPatterns)
                 g == Cardinality(MatchingIndicators)
             IN /\ Len(reasons) = EmojiCount + m + LongCount + g
                /\ EmojiCount = 1 => reasons[1] = "Contains emojis"
                /\ \A p \in MatchingPatterns :
                      reasons[EmojiCount + PatternsBelow(p) + 1]
                          = "Matches AI pattern: " \o aiPatternSource[p]
                /\ LongCount = 1 =>
                      reasons[EmojiCount + m + 1] = "Unusually long commit message"
                /\ \A k \in 1..g :
                      reasons[EmojiCount + m + LongCount + k]
                          = "Perfect grammar/formal language"

\* C7: a message that matches one pattern and two grammar indicators: two signals,
\* three reasons
C7_SeveralMatchesOfOneSignal ==
    /\ Analysed /\ ~HasInvisible
    /\ Cardinality(MatchingPatterns) = 1
    /\ Cardinality(MatchingIndicators) = 2
    /\ TriggeredSignals = 2
    /\ Len(msgResult.reasons) = 3

(***************************************************************************)
(* Claims about analyzeCommitHistory (specification SpecHistory).          *)
(***************************************************************************)
Aggregated == histResult # Undefined /\ Len(githubCommits) > 0
AuthorPair(gc) == <<gc.commit.author.name, gc.commit.author.email>>
CommitsOfPair(pair) == {i \in 1..Len(githubCommits) : AuthorPair(githubCommits[i]) = pair}
AuthorDay(gc) == SubSeq(gc.commit.author.date, 1, 10)
CommitsOfDay(day) == {i \in 1..Len(githubCommits) : AuthorDay(githubCommits[i]) = day}

\* C8: for a non-empty commit list the totalCommits of the contributors sum to the
\* number of commits.
C8_ContributorCommitsSum ==
    Aggregated =>
        SeqSum(MapSeq(LAMBDA c : c.totalCommits, histResult.contributors))
            = Len(githubCommits)

\* C8: three commits folded into two contributors
C8_TwoContributors ==
    /\ Aggregated /\ Len(githubCommits) = 3
    /\ Len(histResult.contributors) = 2
    /\ histResult.contributors[1].totalCommits = 2

\* C9: two commits fall into the same aggregate exactly when their author name and
\* email are both equal: each (name, email) pair of the list has one aggregate of
\* its own, which counts the commits of that pair.
C9_KeyedByNameAndEmail ==
    Aggregated =>
        /\ Len(histResult.contributors)
              = Cardinality({AuthorPair(githubCommits[i]) : i \in 1..Len(githubCommits)})
        /\ \A i \in 1..Len(githubCommits) :
              \E k \in 1..Len(histResult.contributors) :
                  /\ histResult.contributors[k].name = githubCommits[i].commit.author.name
                  /\ histResult.contributors[k].email = githubCommits[i].commit.author.email
                  /\ histResult.contributors[k].totalCommits
                        = Cardinality(CommitsOfPair(AuthorPair(githubCommits[i])))

\* C9, what the code does: ("ann", "lee-x@y.z") and ("ann-lee", "x@y.z") share the
\* key "ann-lee-x@y.z" and are folded into one aggregate
C9_KeyCollisionState ==
    /\ Aggregated /\ Len(githubCommits) = 2
    /\ AuthorPair(githubCommits[1]) = <<"ann", "lee-x@y.z">>
    /\ AuthorPair(githubCommits[2]) = <<"ann-lee", "x@y.z">>
    /\ Len(histResult.contributors) = 1
    /\ histResult.contributors[1].totalCommits = 2

\* C10: the timeline buckets partition the commits by the date part of the author
\* timestamp: bucket dates are distinct, each bucket counts the commits whose author
\* date is its date, every commit has its bucket, and the counts sum to the number
\* of commits.
C10_TimelinePartition ==
    Aggregated =>
        LET timeline == histResult.timeline
        IN /\ \A a, b \in 1..Len(timeline) : a # b => timeline[a].date # timeline[b].date
           /\ \A a \in 1..Len(timeline) :
                 timeline[a].commits = Cardinality(CommitsOfDay(timeline[a].date))
           /\ \A i \in 1..Len(githubCommits) :
                 \E a \in 1..Len(timeline) : timeline[a].date = AuthorDay(githubCommits[i])
           /\ SeqSum(MapSeq(LAMBDA t : t.commits, timeline)) = Len(githubCommits)

\* C10: a commit authored on one day and committed on the next, among commits of
\* two author days
C10_CommittedNextDay ==
    /\ Aggregated /\ Len(githubCommits) = 3
    /\ Len(histResult.timeline) = 2
    /\ \E i \in 1..3 :
          SubSeq(githubCommits[i].commit.committer.date, 1, 10) # AuthorDay(githubCommits[i])

(***************************************************************************)
(* Claims about the order of the contributor list (SpecHistory).           *)
(***************************************************************************)
\* the map key under which a returned contributor was aggregated
KeyOfContributor(c) == c.name \o "-" \o c.email
\* the position in the fetched list of the commit that created the aggregate
FirstSeen(c) ==
    SetMin({i \in 1..Len(githubCommits) :
                githubCommits[i].commit.author.name \o "-"
                    \o githubCommits[i].commit.author.email = KeyOfContributor(c)})

\* C11: the contributor list is in descending order of totalCommits, and two
\* contributors with equal totalCommits stand in the order in which their first
\* commits appear in the fetched list.
C11_ContributorsSortedStable ==
    Aggregated =>
        \A k \in 1..(Len(histResult.contributors) - 1) :
            LET a == histResult.contributors[k]
                b == histResult.contributors[k + 1]
            IN \/ a.totalCommits > b.totalCommits
               \/ /\ a.totalCommits = b.totalCommits
                  /\ FirstSeen(a) < FirstSeen(b)

\* C11: two contributors with one commit each, returned in first-seen order
C11_TieKeepsFirstSeen ==
    /\ Aggregated /\ Len(githubCommits) = 2
    /\ Len(histResult.contributors) = 2
    /\ histResult.contributors[1].totalCommits = histResult.contributors[2].totalCommits
    /\ histResult.contributors[1].name = githubCommits[1].commit.author.name
    /\ histResult.contributors[1].email = githubCommits[1].commit.author.email

(***************************************************************************)
(* Claims about estimateWorkHours (specification SpecHours).               *)
(***************************************************************************)
Estimated == hoursResult # Undefined
\* the author times of the commits, in seconds
HourTimes == MapSeq(LAMBDA c : DateTime(c.author.date), hourCommits)
\* the commits that come before commit i in ascending author-time order
EarlierCommits(times, i) ==
    {j \in 1..Len(times) : times[j] < times[i] \/ (times[j] = times[i] /\ j < i)}
GapBefore(times, i) == times[i] - SetMax({times[j] : j \in EarlierCommits(times, i)})
\* seconds the statement counts for commit i: half an hour for the first commit
\* or after a gap longer than the window, else the gap; plus min(total / 10, 2) h
ClaimedSeconds(times, i) ==
    (IF EarlierCommits(times, i) = {} THEN 1800
     ELSE IF GapBefore(times, i) <= timeWindow * 3600 THEN GapBefore(times, i) ELSE 1800)
    + (IF hourCommits[i].stats.total <= 20 THEN hourCommits[i].stats.total * 360 ELSE 7200)
ClaimedTotal ==
    Bind(HourTimes, LAMBDA times :
        SeqSum(MapSeq(LAMBDA i : ClaimedSeconds(times, i), Iota(Len(times)))))

\* C12: the returned number of hours is the stated sum rounded to one decimal (a
\* tenth nearest to it); the empty list gives 0 and a single commit with total 0
\* gives 0.5.
C12_WorkHoursFormula ==
    Estimated =>
        /\ \E total \in {ClaimedTotal} :
              /\ 360 * hoursResult.hours - 180 <= total
              /\ total <= 360 * hoursResult.hours + 180
        /\ Len(hourCommits) = 0 => hoursResult.hours = 0
        /\ (Len(hourCommits) = 1 /\ hourCommits[1].stats.total = 0) => hoursResult.hours = 5

\* C12: three commits given out of time order, with a gap inside the window, a gap
\* longer than the window and a commit above the two-hour size cap
C12_GapsOnBothSidesOfWindow ==
    /\ Estimated /\ Len(hourCommits) = 3
    /\ \E times \in {HourTimes} :
          /\ times[2] < times[1]
          /\ \E i \in 1..3 : /\ EarlierCommits(times, i) # {}
                             /\ GapBefore(times, i) > 0
                             /\ GapBefore(times, i) <= timeWindow * 3600
          /\ \E i \in 1..3 : /\ EarlierCommits(times, i) # {}
                             /\ GapBefore(times, i) > timeWindow * 3600
    /\ \E i \in 1..3 : hourCommits[i].stats.total > 20

(***************************************************************************)
(* Claims about fetchGitHubContents (specification SpecContents).          *)
(***************************************************************************)
\* what the API answers for the listing on the given ref
StatusOnRef(ref) ==
    ContentsResponse(contentsCall.remote, "me", "fork", contentsCall.path, ref).status
Listing == contentsCall # Undefined
Settled == Listing /\ contentsResult # Undefined

\* C13: "master" is requested only after "main" answered not-found; any other
\* failure on "main" ends the listing as a failure with no further request; and a
\* listing makes at most one fallback request.
C13_FallbackOnlyOnNotFound ==
    Listing =>
        /\ Len(refsRequested) <= 2
        /\ Len(refsRequested) = 2 =>
              /\ refsRequested = <<"main", "master">>
              /\ StatusOnRef("main") = "404"
        /\ (Settled /\ contentsCall.branch = "main"
                /\ StatusOnRef("main") \in {"500", "neterr"}) =>
              /\ refsRequested = <<"main">>
              /\ ~contentsResult.ok

\* C13, what the code does: "main" answers 500, "master" is requested and its
\* listing is returned as the result
C13_FallbackAfterServerError ==
    /\ Settled
    /\ contentsCall.branch = "main"
    /\ StatusOnRef("main") = "500"
    /\ refsRequested = <<"main", "master">>
    /\ contentsResult.ok
    /\ Len(contentsResult.files) > 0
    /\ \A i \in 1..Len(contentsResult.files) : contentsResult.files[i].branch = "master"

\* one request at a time gives the result the call returns as a whole
ContentsAgree ==
    Settled =>
        contentsResult = fetchGitHubContents(contentsCall.remote, "me", "fork",
                                             contentsCall.path, contentsCall.branch)

(***************************************************************************)
(* Claims about fetchGitHubCommits (specifications SpecCommits and         *)
(* SpecCommitsLive).                                                       *)
(***************************************************************************)
\* the commit at position i of the listing with the stats fetched for its own sha,
\* zero stats if that fetch failed
ExpectedCommit(i) ==
    [RemoteCommit(i) EXCEPT !.stats = IF i \in failingStats THEN ZeroStats ELSE @]
ExpectedCommits(n) == [i \in 1..n |-> ExpectedCommit(i)]
InFlightOrSettled ==
    UNION {UnitMembers(u, pageNo) : u \in pending} \cup DOMAIN statsGot
Returned == fetchedCommits # Undefined

\* C14: the stats fetches of a page are all in flight together and all settled
\* before the next page is requested; in whatever order they settle, the commits
\* are in listing order, each with the stats of its own sha (zero stats if its
\* fetch failed), and the analysis of the returned list is that of this sequence.
C14_StatsJoinedInListingOrder ==
    /\ fpc = "stats" => InFlightOrSettled = PageFrom(pageNo)..PageTo(pageNo)
    /\ fpc # "stats" => pending = {}
    /\ pagesRequested # <<>> => Len(commitsAcc) >= (Len(pagesRequested) - 1) * 100
    /\ commitsAcc = ExpectedCommits(Len(commitsAcc))
    /\ Returned => fetchedCommits.commits = ExpectedCommits(MathMin(commitCount, 1000))
    /\ histResult # Undefined =>
          histResult = analyzeCommitHistory(ExpectedCommits(commitCount))

\* C14: the second page of 103 commits, its stats fetches settled last first and the
\* fetch for position 101 failed
C14_SettledInReverse ==
    /\ fpc = "done" /\ Returned
    /\ commitCount = 103
    /\ failingStats = {2, 101}
    /\ settledOrder = <<103, 102, 101>>
    /\ Len(fetchedCommits.commits) = 103
    /\ fetchedCommits.commits[101].stats = ZeroStats
    /\ fetchedCommits.commits[102].stats # ZeroStats

CommitsSettled == fpc \in {"done", "thrown"}
\* what the call has requested and returned so far
C15_PagedAndCapped ==
    /\ pagesRequested = [k \in 1..Len(pagesRequested) |-> k]
    /\ Len(pagesRequested) <= 10
    /\ \A k \in 1..(Len(pagesRequested) - 1) : commitCount >= k * 100 /\ k # failingPage
    /\ fpc = "done" =>
          /\ Returned
          /\ Len(fetchedCommits.commits) <= 1000
          /\ Len(fetchedCommits.commits) = MathMin(commitCount, 1000)
          /\ \/ Len(pagesRequested) = 10
             \/ commitCount < Len(pagesRequested) * 100
    /\ fpc = "thrown" <=> (failingPage \in Range(pagesRequested))
    /\ fpc = "thrown" => ~Returned /\ histResult = Undefined

\* C15: the call always ends; it requests pages 1, 2, ... in order, stops after the
\* first empty or short page, requests at most 10 pages and returns at most 1000
\* commits; a failed page listing ends the call with a failure and no list.
C15_CommitsFetchTerminates == []C15_PagedAndCapped /\ <>CommitsSettled

\* C15: a repository of 1003 commits: ten full pages requested, 1000 commits returned
C15_TenPagesThousandCommits ==
    /\ fpc = "done"
    /\ commitCount = 1003
    /\ Len(pagesRequested) = 10
    /\ Len(fetchedCommits.commits) = 1000

\* request by request, the call gives the result it returns as a whole
CommitsAgree ==
    (CommitsSettled /\ commitCount <= MaxCommits) =>
        \E whole \in {fetchGitHubCommits([i \in 1..commitCount |-> RemoteCommit(i)],
                                          failingPage, failingStats)} :
            /\ whole.ok = (fpc = "done")
            /\ whole.ok => whole.commits = fetchedCommits.commits

====
